---- MODULE Spec2Model ----
(***************************************************************************)
(* A model of calculator_mcp/server.py: the UnifiedCalculator class        *)
(* (detect_expression_type, evaluate_expression, solve_linear_equation,    *)
(* calculate_statistics, process_batch, _eval_node,                        *)
(* _evaluate_simple_expression) and the calculate tool's dispatch.         *)
(*                                                                         *)
(* Texts are sequences of one-character strings, so that the substring     *)
(* tests, splits, replacements and regular expressions of the source are   *)
(* computed on characters as the source computes them.  Numbers are exact  *)
(* rationals [k |-> "rat", n, d] (the source uses IEEE doubles; on the     *)
(* small decimal inputs of this model the two agree up to rounding of      *)
(* non-terminating quotients).  A value too large for exact arithmetic, or *)
(* irrational, is kept symbolically as [k |-> "sym", op, args].            *)
(***************************************************************************)
EXTENDS Integers, Sequences, FiniteSets, TLC

VARIABLES
    pc,          \* "ready": a text is at hand; "done": a method has returned
    called,      \* the method that was invoked on the text
    expression,  \* the expression text
    variable,    \* the variable name the call was given (<<>> when it takes none)
    outcome,     \* the UnifiedCalculationResult returned (NoOutcome before)
    raised,      \* the exception that escaped the method (NoError if none)
    detected,    \* the string returned by detect_expression_type ("" before)
    evalTexts,   \* the texts handed to the builtin eval(), in order
    trace,       \* the operators/functions _eval_node applied, in order
    response_format,  \* the request's response format ("" when not given)
    response,    \* what calculate returned: the kind of string
    rendering    \* the string calculate returned (NoRendering before)

vars == <<pc, called, expression, variable, outcome, raised, detected, evalTexts, trace,
          response_format, response, rendering>>

-----------------------------------------------------------------------------
(* Characters and texts *)

Digits == {"0", "1", "2", "3", "4", "5", "6", "7", "8", "9"}

\* [a-zA-Z]: the ASCII letters (the model's texts use lower-case letters only)
Letters == {"a", "b", "c", "d", "e", "f", "g", "h", "i", "j", "k", "l", "m",
            "n", "o", "p", "q", "r", "s", "t", "u", "v", "w", "x", "y", "z"}

\* \w of the re module, restricted to ASCII
WordChars == Letters \cup Digits \cup {"_"}

\* str.isspace characters that occur in the model's texts
Spaces == {" "}

Min(S) == CHOOSE m \in S : \A o \in S : m <= o
Max(S) == CHOOSE m \in S : \A o \in S : m >= o

\* The element of a one-element set.  The({e : x \in {v}}) is e with x standing
\* for the value v, computed once: the form the model uses for a local
\* variable of the source that is read more than once.
The(S) == CHOOSE x \in S : TRUE

\* s[i:j] of Python with 0-based i, j written 1-based: characters i .. j-1
Slice(s, i, j) == [k \in 1..(IF j > i THEN j - i ELSE 0) |-> s[i + k - 1]]

\* s[i:]
From(s, i) == Slice(s, i, Len(s) + 1)

\* s.startswith(sub, i-1)
StartsAt(s, sub, i) ==
    /\ i + Len(sub) - 1 <= Len(s)
    /\ \A k \in 1..Len(sub) : s[i + k - 1] = sub[k]

\* sub in s
Contains(s, sub) == \E i \in 1..(Len(s) + 1) : StartsAt(s, sub, i)

\* s.strip()
Strip(s) ==
    IF \A i \in 1..Len(s) : s[i] \in Spaces THEN <<>>
    ELSE LET first == CHOOSE i \in 1..Len(s) :
                          s[i] \notin Spaces /\ \A k \in 1..(i - 1) : s[k] \in Spaces
             last == CHOOSE i \in 1..Len(s) :
                         s[i] \notin Spaces /\ \A k \in (i + 1)..Len(s) : s[k] \in Spaces
         IN  Slice(s, first, last + 1)

\* the k-th smallest element of a finite set of integers
Nth(S, k) == CHOOSE p \in S : Cardinality({q \in S : q < p}) = k - 1

\* s.split(sep) for a one-character separator: always at least one part
Split(s, sep) ==
    The({[k \in 1..(Len(P) + 1) |->
             Slice(s, IF k = 1 THEN 1 ELSE P[k - 1] + 1,
                   IF k = Len(P) + 1 THEN Len(s) + 1 ELSE P[k])] :
         P \in {SelectSeq([i \in 1..Len(s) |-> i], LAMBDA i : s[i] = sep)}})

\* s.replace(old, new): non-overlapping occurrences, left to right
RECURSIVE ReplaceFrom(_, _, _, _)
ReplaceFrom(s, old, new, i) ==
    IF \A j \in i..Len(s) : ~StartsAt(s, old, j) THEN From(s, i)
    ELSE LET j == CHOOSE j \in i..Len(s) :
                      StartsAt(s, old, j) /\ \A k \in i..(j - 1) : ~StartsAt(s, old, k)
         IN  Slice(s, i, j) \o new \o ReplaceFrom(s, old, new, j + Len(old))

Replace(s, old, new) == ReplaceFrom(s, old, new, 1)

\* n copies of character c
Rep(c, n) == [i \in 1..n |-> c]

-----------------------------------------------------------------------------
(* detect_expression_type *)

\* the five 'name(' markers of the statistics functions
stat_functions == << <<"m","e","a","n","(">>,
                     <<"m","e","d","i","a","n","(">>,
                     <<"m","o","d","e","(">>,
                     <<"s","t","d","e","v","(">>,
                     <<"v","a","r","i","a","n","c","e","(">> >>

\* re.search(r'[a-zA-Z]\w*', s): succeeds exactly when s holds a letter
HasLetterRun(s) == \E i \in 1..Len(s) : s[i] \in Letters

HasStatCall(s) == \E k \in 1..Len(stat_functions) : Contains(s, stat_functions[k])

\* detect_expression_type with the tests for ';' and for '=' exchanged
detect_expression_type_batch_first(e) ==
    LET s == Strip(e)
    IN  IF Contains(s, <<";">>) THEN "batch_calculation"
        ELSE IF Contains(s, <<"=">>) /\ HasLetterRun(s) THEN "linear_equation"
        ELSE IF HasStatCall(s) THEN "statistics"
        ELSE "expression"

detect_expression_type(e) ==
    LET s == Strip(e)
    IN  IF Contains(s, <<"=">>) /\ HasLetterRun(s) THEN "linear_equation"
        ELSE IF Contains(s, <<";">>) THEN "batch_calculation"
        ELSE IF HasStatCall(s) THEN "statistics"
        ELSE "expression"

-----------------------------------------------------------------------------
(* Numbers: the floats of the source as exact rationals *)

\* Numerators and denominators up to Limit are computed exactly; a larger
\* result is kept as a symbolic term over its operands.
Limit == 10000

AbsInt(n) == IF n < 0 THEN -n ELSE n

RECURSIVE GCD(_, _)
GCD(a, b) == IF b = 0 THEN a ELSE GCD(b, a % b)

\* the rational n/d (d # 0) in lowest terms with a positive denominator
MkRat(n, d) ==
    LET g == GCD(AbsInt(n), AbsInt(d))
        s == IF d < 0 THEN -1 ELSE 1
    IN  [k |-> "rat", n |-> (s * n) \div g, d |-> (s * d) \div g]

Num(n) == [k |-> "rat", n |-> n, d |-> 1]
Sym(op, args) == [k |-> "sym", op |-> op, args |-> args]
NaN == [k |-> "nan"]

IsRat(v) == v.k = "rat"
IsZero(v) == IsRat(v) /\ v.n = 0

\* n/d if it is within the exact range, else the symbolic term op(args)
Fit(op, args, n, d) ==
    The({IF AbsInt(r.n) <= Limit /\ r.d <= Limit THEN r ELSE Sym(op, args) :
         r \in {MkRat(n, d)}})

Add(a, b) ==
    IF IsRat(a) /\ IsRat(b) THEN Fit("+", <<a, b>>, a.n * b.d + b.n * a.d, a.d * b.d)
    ELSE Sym("+", <<a, b>>)

Sub(a, b) ==
    IF IsRat(a) /\ IsRat(b) THEN Fit("-", <<a, b>>, a.n * b.d - b.n * a.d, a.d * b.d)
    ELSE Sym("-", <<a, b>>)

Mul(a, b) ==
    IF IsRat(a) /\ IsRat(b) THEN Fit("*", <<a, b>>, a.n * b.n, a.d * b.d)
    ELSE Sym("*", <<a, b>>)

\* a / b for b # 0
Div(a, b) ==
    IF IsRat(a) /\ IsRat(b) THEN Fit("/", <<a, b>>, a.n * b.d, a.d * b.n)
    ELSE Sym("/", <<a, b>>)

\* floor(a / b) for b # 0: Python's float floor division
FloorDiv(a, b) ==
    IF IsRat(a) /\ IsRat(b)
    THEN LET s == IF b.n < 0 THEN -1 ELSE 1
             p == s * a.n * b.d
             q == s * a.d * b.n
         IN  Fit("//", <<a, b>>, p \div q, 1)
    ELSE Sym("//", <<a, b>>)

\* a - b * floor(a / b) for b # 0: Python's float modulo (sign of the divisor)
Mod(a, b) ==
    The({IF IsRat(a) /\ IsRat(b) /\ IsRat(q) THEN Sub(a, Mul(b, q)) ELSE Sym("%", <<a, b>>) :
         q \in {FloorDiv(a, b)}})

Neg(a) == IF IsRat(a) THEN [k |-> "rat", n |-> -a.n, d |-> a.d] ELSE Sym("neg", <<a>>)

AbsVal(a) == IF IsRat(a) THEN [k |-> "rat", n |-> AbsInt(a.n), d |-> a.d] ELSE Sym("abs", <<a>>)

\* x^e for naturals, saturating just above Limit (x >= 2 and e >= 31 exceed it)
RECURSIVE PowSat(_, _)
PowSat(x, e) ==
    IF e = 0 THEN 1
    ELSE IF x <= 1 THEN x
    ELSE IF e >= 31 THEN Limit + 1
    ELSE LET r == PowSat(x, e - 1)
         IN  IF r > Limit THEN Limit + 1 ELSE IF r * x > Limit THEN Limit + 1 ELSE r * x

\* a ** b where it does not raise (not: zero to a negative power)
Pow(a, b) ==
    IF IsRat(a) /\ IsRat(b) /\ b.d = 1
    THEN LET e == AbsInt(b.n)
             pn == PowSat(AbsInt(a.n), e)
             pd == PowSat(a.d, e)
             sg == IF a.n < 0 /\ e % 2 = 1 THEN -1 ELSE 1
         IN  IF pn > Limit \/ pd > Limit THEN Sym("**", <<a, b>>)
             ELSE IF b.n >= 0 THEN MkRat(sg * pn, pd)
             ELSE MkRat(sg * pd, pn)
    ELSE Sym("**", <<a, b>>)

\* math.sqrt(a) for a >= 0
Sqrt(a) ==
    IF IsRat(a) /\ (\E r \in 0..a.n : r * r = a.n) /\ (\E r \in 1..a.d : r * r = a.d)
    THEN MkRat(CHOOSE r \in 0..a.n : r * r = a.n, CHOOSE r \in 1..a.d : r * r = a.d)
    ELSE Sym("sqrt", <<a>>)

Less(a, b) == a.n * b.d < b.n * a.d

-----------------------------------------------------------------------------
(* ast.parse(text, mode='eval'): the tokens.                                *)
(* The fragment of Python modelled: decimal literals (with fraction and    *)
(* exponent), names, single-quoted strings, the operators + - * / // % **, *)
(* == = ; , . ( ) [ ] and '#' comments.  The model's texts stay inside it.  *)

\* the first position at or after i whose character is outside C
RunEnd(s, i, C) ==
    CHOOSE j \in i..(Len(s) + 1) :
        (j = Len(s) + 1 \/ s[j] \notin C) /\ \A k \in i..(j - 1) : s[k] \in C

Tok(t, text) == [t |-> t, s |-> text]

\* the end of an optional fraction "." digits* at position a
FractionEnd(s, a) == IF a <= Len(s) /\ s[a] = "." THEN RunEnd(s, a + 1, Digits) ELSE a

\* the end of an optional exponent "e" [+-] digits+ at position b
ExponentEnd(s, b) ==
    IF b <= Len(s) /\ s[b] = "e"
    THEN LET d == IF b + 1 <= Len(s) /\ s[b + 1] \in {"+", "-"} THEN b + 2 ELSE b + 1
         IN  IF d <= Len(s) /\ s[d] \in Digits THEN RunEnd(s, d, Digits) ELSE b
    ELSE b

\* the end of the decimal literal starting at i: digits, fraction, exponent
NumberEnd(s, i) == ExponentEnd(s, FractionEnd(s, RunEnd(s, i, Digits)))

\* "leading zeros in decimal integer literals are not permitted"
LeadingZeros(text) ==
    /\ Len(text) > 1
    /\ text[1] = "0"
    /\ \A k \in 1..Len(text) : text[k] \in Digits
    /\ \E k \in 1..Len(text) : text[k] # "0"

\* the NUMBER token s[i..j-1]: bad when a word character follows it
\* ("invalid decimal literal") or when it has leading zeros
NumberToken(s, i, j) ==
    [tok |-> Tok(IF (j <= Len(s) /\ s[j] \in WordChars) \/ LeadingZeros(Slice(s, i, j))
                 THEN "bad" ELSE "num",
                 Slice(s, i, j)),
     next |-> j]

\* the token starting at position i (not a space), with the position after it
NextToken(s, i) ==
    LET c == s[i]
        two == IF i < Len(s) THEN <<c, s[i + 1]>> ELSE <<c>>
    IN  IF c \in Digits \/ (c = "." /\ i < Len(s) /\ s[i + 1] \in Digits)
        THEN NumberToken(s, i, NumberEnd(s, i))
        ELSE IF c \in Letters \cup {"_"}
        THEN LET j == RunEnd(s, i, WordChars)
             IN  [tok |-> Tok("name", Slice(s, i, j)), next |-> j]
        ELSE IF c = "'"
        THEN LET close == {j \in (i + 1)..Len(s) : s[j] = "'"}
             IN  IF close = {} THEN [tok |-> Tok("bad", <<c>>), next |-> Len(s) + 1]
                 ELSE [tok |-> Tok("str", Slice(s, i + 1, Min(close))), next |-> Min(close) + 1]
        ELSE IF two \in {<<"*", "*">>, <<"/", "/">>, <<"=", "=">>}
        THEN [tok |-> Tok("op", two), next |-> i + 2]
        ELSE IF c \in {"+", "-", "*", "/", "%", "(", ")", "[", "]", ",", "=", ";", "."}
        THEN [tok |-> Tok("op", <<c>>), next |-> i + 1]
        ELSE [tok |-> Tok("bad", <<c>>), next |-> i + 1]

\* a token no rule of an expression accepts: the parse of mode='eval' fails
\* at it whatever follows
EndsParse(tok) == tok.t = "bad" \/ (tok.t = "op" /\ tok.s = <<";">>)

\* the tokens of s from position i, up to the first that ends the parse
RECURSIVE TokenizeFrom(_, _)
TokenizeFrom(s, i) ==
    LET j == RunEnd(s, i, Spaces)
    IN  IF j > Len(s) \/ s[j] = "#" THEN <<>>
        ELSE The({IF EndsParse(nt.tok) THEN <<nt.tok>>
                  ELSE <<nt.tok>> \o TokenizeFrom(s, nt.next) :
                  nt \in {NextToken(s, j)}})

Tokenize(s) == TokenizeFrom(s, 1)

-----------------------------------------------------------------------------
(* Decimal literals and float() *)

DigitSeq == <<"0", "1", "2", "3", "4", "5", "6", "7", "8", "9">>
DigitVal(c) == (CHOOSE k \in 1..10 : DigitSeq[k] = c) - 1

RECURSIVE DigitsValue(_)
DigitsValue(ds) ==
    IF ds = <<>> THEN 0
    ELSE 10 * DigitsValue(SubSeq(ds, 1, Len(ds) - 1)) + DigitVal(ds[Len(ds)])

RECURSIVE Pow10(_)
Pow10(e) == IF e = 0 THEN 1 ELSE 10 * Pow10(e - 1)

\* the text before the first occurrence of character c (all of it if none)
Before(text, c) ==
    IF \A i \in 1..Len(text) : text[i] # c THEN text
    ELSE Slice(text, 1, CHOOSE i \in 1..Len(text) :
                            text[i] = c /\ \A k \in 1..(i - 1) : text[k] # c)

\* the text after the first occurrence of character c (empty if none)
After(text, c) == From(text, Len(Before(text, c)) + 2)

\* the value of the literal with integer digits ip, fraction digits fp and
\* exponent ex (negative when neg): n * 10^(+-ex - Len(fp))
ScaledValue(text, n, fp_len, neg, ex) ==
    IF n = 0 THEN Num(0)
    ELSE IF neg THEN Fit("literal", text, n, Pow10(fp_len + ex))
    ELSE IF ex >= fp_len THEN Fit("literal", text, n * Pow10(ex - fp_len), 1)
    ELSE Fit("literal", text, n, Pow10(fp_len - ex))

\* the value of mantissa ip.fp with exponent text expo ([+-] digits, or empty)
DecimalValue(text, ip, fp, expo) ==
    LET neg == expo # <<>> /\ expo[1] = "-"
        ed == IF expo # <<>> /\ expo[1] \in {"+", "-"} THEN Tail(expo) ELSE expo
    IN  IF Len(ip) + Len(fp) > 9 \/ Len(ed) > 1 THEN Sym("literal", text)
        ELSE IF DigitsValue(ip \o fp) # 0 /\ Len(ip) + Len(fp) + DigitsValue(ed) > 9
        THEN Sym("literal", text)
        ELSE ScaledValue(text, DigitsValue(ip \o fp), Len(fp), neg, DigitsValue(ed))

\* the value of a decimal literal  digits [. digits] [e [+-] digits]
NumberValue(text) ==
    DecimalValue(text, Before(Before(text, "e"), "."), After(Before(text, "e"), "."),
                 After(text, "e"))

\* whether float(text) accepts text: [ws] [sign] decimal-literal [ws]
\* (the spellings inf, nan and digit-group underscores do not occur in the model)
FloatBody(text) ==
    LET t == Strip(text)
    IN  IF t # <<>> /\ t[1] \in {"+", "-"} THEN Tail(t) ELSE t

\* b is one decimal literal
IsDecimalText(b) ==
    /\ b # <<>>
    /\ b[1] \in Digits \/ (b[1] = "." /\ Len(b) > 1 /\ b[2] \in Digits)
    /\ NumberEnd(b, 1) = Len(b) + 1

IsFloatText(text) == IsDecimalText(FloatBody(text))

\* float(text) for a text float() accepts
FloatValue(text) ==
    The({IF Strip(text)[1] = "-" THEN Neg(v) ELSE v : v \in {NumberValue(FloatBody(text))}})

-----------------------------------------------------------------------------
(* ast.parse(text, mode='eval'): the grammar.                               *)
(*   expressions: comparison (',' comparison)* [',']                        *)
(*   comparison:  sum ('==' sum)*                                           *)
(*   sum:         term (('+' | '-') term)*                                  *)
(*   term:        factor (('*' | '/' | '//' | '%') factor)*                 *)
(*   factor:      ('+' | '-') factor | power                                *)
(*   power:       primary ['**' factor]                                     *)
(*   primary:     atom ('(' [expressions] ')' | '.' NAME)*                  *)
(*   atom:        NUMBER | NAME | STRING | '(' [expressions] ')'            *)
(*                | '[' [expressions] ']'                                   *)

\* the lower-case reserved words: none of them is a NAME
PythonKeywords ==
    { <<"i","m","p","o","r","t">>, <<"i","f">>, <<"i","n">>, <<"i","s">>, <<"o","r">>,
      <<"a","n","d">>, <<"n","o","t">>, <<"f","o","r">>, <<"a","s">>, <<"d","e","f">>,
      <<"d","e","l">>, <<"e","l","s","e">>, <<"e","l","i","f">>, <<"t","r","y">>,
      <<"f","r","o","m">>, <<"w","i","t","h">>, <<"p","a","s","s">>, <<"l","a","m","b","d","a">>,
      <<"w","h","i","l","e">>, <<"c","l","a","s","s">>, <<"r","a","i","s","e">>,
      <<"b","r","e","a","k">>, <<"y","i","e","l","d">>, <<"a","s","s","e","r","t">>,
      <<"e","x","c","e","p","t">>, <<"g","l","o","b","a","l">>, <<"r","e","t","u","r","n">>,
      <<"f","i","n","a","l","l","y">>, <<"n","o","n","l","o","c","a","l">>,
      <<"c","o","n","t","i","n","u","e">>, <<"a","s","y","n","c">>, <<"a","w","a","i","t">> }

BinOpName(text) ==
    CASE text = <<"+">> -> "Add"
      [] text = <<"-">> -> "Sub"
      [] text = <<"*">> -> "Mult"
      [] text = <<"/">> -> "Div"
      [] text = <<"/", "/">> -> "FloorDiv"
      [] text = <<"%">> -> "Mod"
      [] text = <<"*", "*">> -> "Pow"

NoNode == [type |-> "none"]
Parsed(node, next) == [ok |-> TRUE, node |-> node, next |-> next]
Unparsed == [ok |-> FALSE, node |-> NoNode, next |-> 0]

IsOp(toks, i, texts) == i <= Len(toks) /\ toks[i].t = "op" /\ toks[i].s \in texts

RECURSIVE ParseExpressions(_, _, _), ParseComparison(_, _), ParseSum(_, _),
          SumRest(_, _, _), ParseTerm(_, _), TermRest(_, _, _), ParseFactor(_, _),
          ParsePower(_, _), ParsePrimary(_, _), Trailers(_, _, _), ParseAtom(_, _),
          ParseBracketed(_, _, _)

\* comparison (',' comparison)* [',']: [ok, elts, next, comma]
ParseExpressions(toks, i, acc) ==
    The({IF ~r.ok THEN [ok |-> FALSE, elts |-> acc, next |-> 0, comma |-> FALSE]
         ELSE IF IsOp(toks, r.next, {<<",">>})
         THEN IF r.next + 1 > Len(toks) \/ IsOp(toks, r.next + 1, {<<")">>, <<"]">>})
              THEN [ok |-> TRUE, elts |-> Append(acc, r.node), next |-> r.next + 1,
                    comma |-> TRUE]
              ELSE ParseExpressions(toks, r.next + 1, Append(acc, r.node))
         ELSE [ok |-> TRUE, elts |-> Append(acc, r.node), next |-> r.next,
               comma |-> acc # <<>>] :
         r \in {ParseComparison(toks, i)}})

\* the node of "left op right" once the right operand r is parsed
BinOpNode(op, left, r) ==
    IF r.ok THEN Parsed([type |-> "BinOp", op |-> op, left |-> left, right |-> r.node], r.next)
    ELSE Unparsed

ParseComparison(toks, i) ==
    The({IF l.ok /\ IsOp(toks, l.next, {<<"=", "=">>})
         THEN The({IF r.ok
                   THEN Parsed([type |-> "Compare", left |-> l.node, right |-> r.node], r.next)
                   ELSE Unparsed :
                   r \in {ParseComparison(toks, l.next + 1)}})
         ELSE l :
         l \in {ParseSum(toks, i)}})

ParseSum(toks, i) ==
    The({IF l.ok THEN SumRest(toks, l.node, l.next) ELSE Unparsed : l \in {ParseTerm(toks, i)}})

SumRest(toks, left, i) ==
    IF IsOp(toks, i, {<<"+">>, <<"-">>})
    THEN The({IF n.ok THEN SumRest(toks, n.node, n.next) ELSE Unparsed :
              n \in {BinOpNode(BinOpName(toks[i].s), left, ParseTerm(toks, i + 1))}})
    ELSE Parsed(left, i)

ParseTerm(toks, i) ==
    The({IF l.ok THEN TermRest(toks, l.node, l.next) ELSE Unparsed :
         l \in {ParseFactor(toks, i)}})

TermRest(toks, left, i) ==
    IF IsOp(toks, i, {<<"*">>, <<"/">>, <<"/", "/">>, <<"%">>})
    THEN The({IF n.ok THEN TermRest(toks, n.node, n.next) ELSE Unparsed :
              n \in {BinOpNode(BinOpName(toks[i].s), left, ParseFactor(toks, i + 1))}})
    ELSE Parsed(left, i)

\* factor with a sign that takes the whole multiplicative term after it:
\* the grouping in which "-a % b" is -(a % b)
ParseFactor_sign_over_term(toks, i) ==
    IF IsOp(toks, i, {<<"+">>, <<"-">>})
    THEN The({IF r.ok
              THEN Parsed([type |-> "UnaryOp",
                           op |-> IF toks[i].s = <<"-">> THEN "USub" ELSE "UAdd",
                           operand |-> r.node], r.next)
              ELSE Unparsed :
              r \in {ParseTerm(toks, i + 1)}})
    ELSE ParsePower(toks, i)

ParseFactor(toks, i) ==
    IF IsOp(toks, i, {<<"+">>, <<"-">>})
    THEN The({IF r.ok
              THEN Parsed([type |-> "UnaryOp",
                           op |-> IF toks[i].s = <<"-">> THEN "USub" ELSE "UAdd",
                           operand |-> r.node], r.next)
              ELSE Unparsed :
              r \in {ParseFactor(toks, i + 1)}})
    ELSE ParsePower(toks, i)

ParsePower(toks, i) ==
    The({IF l.ok /\ IsOp(toks, l.next, {<<"*", "*">>})
         THEN BinOpNode("Pow", l.node, ParseFactor(toks, l.next + 1))
         ELSE l :
         l \in {ParsePrimary(toks, i)}})

ParsePrimary(toks, i) ==
    The({IF a.ok THEN Trailers(toks, a.node, a.next) ELSE Unparsed : a \in {ParseAtom(toks, i)}})

Trailers(toks, node, i) ==
    IF IsOp(toks, i, {<<"(">>})
    THEN The({IF b.ok
              THEN Trailers(toks, [type |-> "Call", func |-> node, args |-> b.elts], b.next)
              ELSE Unparsed :
              b \in {ParseBracketed(toks, i + 1, <<")">>)}})
    ELSE IF IsOp(toks, i, {<<".">>})
    THEN IF i + 1 <= Len(toks) /\ toks[i + 1].t = "name" /\ toks[i + 1].s \notin PythonKeywords
         THEN Trailers(toks, [type |-> "Attribute", value |-> node, attr |-> toks[i + 1].s], i + 2)
         ELSE Unparsed
    ELSE Parsed(node, i)

\* [expressions] closer, after the opening bracket: [ok, elts, next, comma]
ParseBracketed(toks, i, closer) ==
    IF IsOp(toks, i, {closer})
    THEN [ok |-> TRUE, elts |-> <<>>, next |-> i + 1, comma |-> TRUE]
    ELSE The({IF l.ok /\ IsOp(toks, l.next, {closer})
              THEN [ok |-> TRUE, elts |-> l.elts, next |-> l.next + 1, comma |-> l.comma]
              ELSE [ok |-> FALSE, elts |-> <<>>, next |-> 0, comma |-> FALSE] :
              l \in {ParseExpressions(toks, i, <<>>)}})

ParseAtom(toks, i) ==
    IF i > Len(toks) THEN Unparsed
    ELSE IF toks[i].t = "num"
    THEN Parsed([type |-> "Constant", value |-> NumberValue(toks[i].s)], i + 1)
    ELSE IF toks[i].t = "str"
    THEN Parsed([type |-> "Constant", value |-> [k |-> "str", s |-> toks[i].s]], i + 1)
    ELSE IF toks[i].t = "name"
    THEN IF toks[i].s \in PythonKeywords THEN Unparsed
         ELSE Parsed([type |-> "Name", id |-> toks[i].s], i + 1)
    ELSE IF IsOp(toks, i, {<<"(">>})
    THEN The({IF ~b.ok THEN Unparsed
              ELSE IF Len(b.elts) = 1 /\ ~b.comma THEN Parsed(b.elts[1], b.next)
              ELSE Parsed([type |-> "Tuple", elts |-> b.elts], b.next) :
              b \in {ParseBracketed(toks, i + 1, <<")">>)}})
    ELSE IF IsOp(toks, i, {<<"[">>})
    THEN The({IF b.ok THEN Parsed([type |-> "List", elts |-> b.elts], b.next) ELSE Unparsed :
              b \in {ParseBracketed(toks, i + 1, <<"]">>)}})
    ELSE Unparsed

\* ast.parse(text, mode='eval').body, or a SyntaxError (ok = FALSE).  A text
\* that starts with a blank is an IndentationError for ast.parse.
ParseTokens(toks) ==
    IF toks = <<>> THEN Unparsed
    ELSE The({IF ~l.ok \/ l.next # Len(toks) + 1 THEN Unparsed
              ELSE IF Len(l.elts) = 1 /\ ~l.comma THEN Parsed(l.elts[1], l.next)
              ELSE Parsed([type |-> "Tuple", elts |-> l.elts], l.next) :
              l \in {ParseExpressions(toks, 1, <<>>)}})

ast_parse(text) ==
    IF text = <<>> \/ text[1] \in Spaces THEN Unparsed ELSE ParseTokens(Tokenize(text))

-----------------------------------------------------------------------------
(* The allow-lists and _eval_node *)

\* An exception or error message: its kind, the user text interpolated into
\* it, and the method whose handler prefixed it ("" for none).
NoError == [kind |-> "none", arg |-> <<>>, via |-> ""]
Err(kind, arg) == [kind |-> kind, arg |-> arg, via |-> ""]

T_sin == <<"s","i","n">>
T_cos == <<"c","o","s">>
T_tan == <<"t","a","n">>
T_log == <<"l","o","g">>
T_log10 == <<"l","o","g","1","0">>
T_sqrt == <<"s","q","r","t">>
T_abs == <<"a","b","s">>
T_round == <<"r","o","u","n","d">>
T_pow == <<"p","o","w">>
T_mean == <<"m","e","a","n">>
T_median == <<"m","e","d","i","a","n">>
T_mode == <<"m","o","d","e">>
T_stdev == <<"s","t","d","e","v">>
T_variance == <<"v","a","r","i","a","n","c","e">>
T_min == <<"m","i","n">>
T_max == <<"m","a","x">>
T_sum == <<"s","u","m">>
T_len == <<"l","e","n">>
T_pi == <<"p","i">>
T_e == <<"e">>
T_tau == <<"t","a","u">>

\* the keys of self.safe_functions
safe_functions ==
    {T_sin, T_cos, T_tan, T_log, T_log10, T_sqrt, T_abs, T_round, T_pow,
     T_mean, T_median, T_mode, T_stdev, T_variance, T_min, T_max, T_sum, T_len}

\* the keys of self.safe_constants; their values are irrational doubles
safe_constants == {T_pi, T_e, T_tau}
ConstantValue(id) == Sym("const", id)

Complex == [k |-> "complex"]
IsNumber(v) == v.k \in {"rat", "sym"}

Returned(v) == [ok |-> TRUE, v |-> v, err |-> NoError]
Raised(kind, arg) == [ok |-> FALSE, v |-> NaN, err |-> Err(kind, arg)]

\* left ** right on floats: ZeroDivisionError for 0.0 to a negative power, a
\* complex number for a negative base with a fractional exponent
PowFloats(a, b) ==
    IF ~IsNumber(a) \/ ~IsNumber(b) THEN Returned(Complex)
    ELSE IF IsRat(a) /\ IsRat(b) /\ a.n = 0 /\ b.n < 0 THEN Raised("ZeroDivisionError", <<>>)
    ELSE IF IsRat(a) /\ IsRat(b) /\ a.n < 0 /\ b.d # 1 THEN Returned(Complex)
    ELSE IF IsRat(a) /\ IsRat(b) /\ a.n = 0 THEN Returned(IF b.n = 0 THEN Num(1) ELSE Num(0))
    ELSE Returned(Pow(a, b))

\* the BinOp branch without its three tests of a zero right operand: the
\* quotient by zero is returned as a value
ApplyBinOp_unchecked(op, left, right) ==
    IF ~IsNumber(left) \/ ~IsNumber(right) THEN Returned(Complex)
    ELSE CASE op = "Add" -> Returned(Add(left, right))
           [] op = "Sub" -> Returned(Sub(left, right))
           [] op = "Mult" -> Returned(Mul(left, right))
           [] op = "Pow" -> PowFloats(left, right)
           [] OTHER -> Returned(IF IsZero(right) THEN Sym("inf", <<left, right>>)
                                ELSE IF op = "Div" THEN Div(left, right)
                                ELSE IF op = "FloorDiv" THEN FloorDiv(left, right)
                                ELSE Mod(left, right))

\* the branch of _eval_node for ast.BinOp, on the operands' values
ApplyBinOp(op, left, right) ==
    IF ~IsNumber(left) \/ ~IsNumber(right)
    THEN IF op \in {"Div", "FloorDiv", "Mod"} /\ IsZero(right) THEN Raised("ZeroDivision", <<>>)
         ELSE IF op \in {"FloorDiv", "Mod"} THEN Raised("TypeError", <<>>)
         ELSE Returned(Complex)
    ELSE CASE op = "Add" -> Returned(Add(left, right))
           [] op = "Sub" -> Returned(Sub(left, right))
           [] op = "Mult" -> Returned(Mul(left, right))
           [] op = "Div" -> IF IsZero(right) THEN Raised("ZeroDivision", <<>>)
                            ELSE Returned(Div(left, right))
           [] op = "Pow" -> PowFloats(left, right)
           [] op = "FloorDiv" -> IF IsZero(right) THEN Raised("ZeroDivision", <<>>)
                                 ELSE Returned(FloorDiv(left, right))
           [] op = "Mod" -> IF IsZero(right) THEN Raised("ZeroDivision", <<>>)
                            ELSE Returned(Mod(left, right))

\* round(x) with one argument: to the nearest integer, ties to even
RoundHalfEven(a) ==
    IF ~IsRat(a) THEN Sym("round", <<a>>)
    ELSE LET f == a.n \div a.d
             twice == 2 * (a.n - f * a.d)
         IN  IF twice < a.d THEN Num(f)
             ELSE IF twice > a.d THEN Num(f + 1)
             ELSE IF f % 2 = 0 THEN Num(f) ELSE Num(f + 1)

RECURSIVE Least(_)
Least(vs) ==
    IF Len(vs) = 1 THEN vs[1]
    ELSE LET m == Least(Tail(vs)) IN IF Less(m, vs[1]) THEN m ELSE vs[1]

RECURSIVE Greatest(_)
Greatest(vs) ==
    IF Len(vs) = 1 THEN vs[1]
    ELSE LET m == Greatest(Tail(vs)) IN IF Less(vs[1], m) THEN m ELSE vs[1]

\* self.safe_functions[name](*args) on float arguments
ApplyFunction(name, args) ==
    LET n == Len(args)
        exact == \A k \in 1..n : IsRat(args[k])
        numeric == \A k \in 1..n : IsNumber(args[k])
    IN  IF name \in {T_mean, T_median, T_mode, T_stdev, T_variance, T_sum, T_len}
        THEN Raised("TypeError", <<>>)      \* a float is not iterable
        ELSE IF name \in {T_min, T_max}
        THEN IF n < 2 \/ ~numeric THEN Raised("TypeError", <<>>)
             ELSE IF ~exact THEN Returned(Sym("minmax", args))
             ELSE Returned(IF name = T_min THEN Least(args) ELSE Greatest(args))
        ELSE IF name = T_pow
        THEN IF n = 2 THEN PowFloats(args[1], args[2]) ELSE Raised("TypeError", <<>>)
        ELSE IF name = T_round
        THEN IF n = 1 /\ numeric THEN Returned(RoundHalfEven(args[1]))
             ELSE Raised("TypeError", <<>>)
        ELSE IF name = T_abs
        THEN IF n = 1 THEN Returned(AbsVal(args[1])) ELSE Raised("TypeError", <<>>)
        ELSE IF name = T_log /\ n = 2
        THEN IF ~numeric THEN Raised("TypeError", <<>>)
             ELSE IF exact /\ (args[1].n <= 0 \/ args[2].n <= 0) THEN Raised("ValueError", <<>>)
             ELSE IF exact /\ args[2] = Num(1) THEN Raised("ZeroDivisionError", <<>>)
             ELSE Returned(Sym("log", args))
        ELSE IF n # 1 \/ ~numeric THEN Raised("TypeError", <<>>)
        ELSE IF name = T_sqrt
        THEN IF IsRat(args[1]) /\ args[1].n < 0 THEN Raised("ValueError", <<>>)
             ELSE Returned(Sqrt(args[1]))
        ELSE IF name \in {T_log, T_log10}
        THEN IF IsRat(args[1]) /\ args[1].n <= 0 THEN Raised("ValueError", <<>>)
             ELSE IF args[1] = Num(1) THEN Returned(Num(0))
             ELSE Returned(Sym("log", args))
        ELSE IF name = T_cos
        THEN Returned(IF IsZero(args[1]) THEN Num(1) ELSE Sym("cos", args))
        ELSE Returned(IF IsZero(args[1]) THEN Num(0) ELSE Sym("sintan", <<name>> \o args))

\* one entry of the evaluation trace: a node whose operator or function was
\* reached with all its operands evaluated
BinOpEvent(op, right) == [node |-> "BinOp", op |-> op, fn |-> <<>>, zero |-> IsZero(right)]
UnaryOpEvent(op) == [node |-> "UnaryOp", op |-> op, fn |-> <<>>, zero |-> FALSE]
CallEvent(name) == [node |-> "Call", op |-> "call", fn |-> name, zero |-> FALSE]

Ev(r, tr) == [ok |-> r.ok, v |-> r.v, err |-> r.err, trace |-> tr]

RECURSIVE _eval_node(_), EvalArgs(_, _, _, _)

\* [self._eval_node(arg) for arg in node.args]: left to right, stopping at
\* the first argument that raises
EvalArgs(args, k, vals, tr) ==
    IF k > Len(args) THEN [ok |-> TRUE, vals |-> vals, err |-> NoError, trace |-> tr]
    ELSE LET a == _eval_node(args[k])
         IN  IF a.ok THEN EvalArgs(args, k + 1, Append(vals, a.v), tr \o a.trace)
             ELSE [ok |-> FALSE, vals |-> vals, err |-> a.err, trace |-> tr \o a.trace]

_eval_node(node) ==
    IF node.type = "Constant"
    THEN IF IsNumber(node.value) THEN Ev(Returned(node.value), <<>>)
         ELSE Ev(Raised("BadConstant", <<>>), <<>>)
    ELSE IF node.type = "BinOp"
    THEN LET left == _eval_node(node.left)
         IN  IF ~left.ok THEN left
             ELSE LET right == _eval_node(node.right)
                  IN  IF ~right.ok THEN Ev(right, left.trace \o right.trace)
                      ELSE Ev(ApplyBinOp(node.op, left.v, right.v),
                              left.trace \o right.trace \o <<BinOpEvent(node.op, right.v)>>)
    ELSE IF node.type = "UnaryOp"
    THEN LET operand == _eval_node(node.operand)
         IN  IF ~operand.ok THEN operand
             ELSE Ev(Returned(IF node.op = "UAdd" THEN operand.v
                              ELSE IF IsNumber(operand.v) THEN Neg(operand.v) ELSE Complex),
                     operand.trace \o <<UnaryOpEvent(node.op)>>)
    ELSE IF node.type = "Call"
    THEN IF node.func.type # "Name" THEN Ev(Raised("BadCallForm", <<>>), <<>>)
         ELSE IF node.func.id \notin safe_functions
         THEN Ev(Raised("UnknownFunction", node.func.id), <<>>)
         ELSE LET args == EvalArgs(node.args, 1, <<>>, <<>>)
              IN  IF ~args.ok THEN [ok |-> FALSE, v |-> NaN, err |-> args.err, trace |-> args.trace]
                  ELSE Ev(ApplyFunction(node.func.id, args.vals),
                          args.trace \o <<CallEvent(node.func.id)>>)
    ELSE IF node.type = "Name"
    THEN IF node.id \in safe_constants THEN Ev(Returned(ConstantValue(node.id)), <<>>)
         ELSE Ev(Raised("UnknownName", node.id), <<>>)
    ELSE Ev(Raised("BadNode", <<>>), <<>>)

-----------------------------------------------------------------------------
(* UnifiedCalculationResult and its field validation *)

\* Field(max_length=1000) of expression
MAX_EXPRESSION_LEN == 1000
\* Field(max_length=500) of error
MAX_ERROR_LEN == 500

\* len(prefix) of the message a handler builds as f"<prefix>{str(e)}"
PrefixLen(via) ==
    CASE via = "" -> 0
      [] via = "solve" -> 7          \* "解方程失败: "
      [] via = "statistics" -> 8     \* "统计计算失败: "
      [] via = "batch" -> 8          \* "批量计算失败: "
      [] via = "calculate" -> 6      \* "计算失败: "

\* len(str(e)) without the interpolated user text.  The lengths of the
\* messages raised by the source are those of its literals; those of the
\* interpreter and of pydantic are the lengths of their usual wording (a
\* ValidationError of the result field lists the three members of the Union
\* and is longer than MAX_ERROR_LEN; one of a string field is shorter).
BaseLen(kind) ==
    CASE kind = "none" -> 0
      [] kind = "ZeroDivision" -> 6
      [] kind = "UnknownName" -> 11
      [] kind = "UnknownFunction" -> 8
      [] kind = "BadCallForm" -> 10
      [] kind = "BadConstant" -> 23
      [] kind = "BadNode" -> 31
      [] kind = "SyntaxError" -> 34
      [] kind = "TypeError" -> 60
      [] kind = "ValueError" -> 17
      [] kind = "ZeroDivisionError" -> 40
      [] kind = "FloatConversion" -> 37
      [] kind = "MalformedEquation" -> 10
      [] kind = "NoVariable" -> 17
      [] kind = "StatFormat" -> 31
      [] kind = "UnknownStat" -> 10
      [] kind = "StatisticsError" -> 37
      [] kind = "ValidationErrorString" -> 290
      [] kind = "ValidationErrorResult" -> 660

MsgLen(err) == PrefixLen(err.via) + BaseLen(err.kind) + Len(err.arg)

Prefixed(err, via) == [kind |-> err.kind, arg |-> err.arg, via |-> via]

ListResult(items) == [k |-> "list", items |-> items]

NoOutcome ==
    [operation |-> "", expression |-> <<>>, result |-> NaN, error |-> NoError,
     data |-> <<>>, batch_results |-> <<>>, steps |-> <<>>]

\* the keyword arguments of a UnifiedCalculationResult(...) call, steps apart
Result(operation, expr, result, error, data, batch_results) ==
    [operation |-> operation, expression |-> expr, result |-> result, error |-> error,
     data |-> data, batch_results |-> batch_results, steps |-> <<>>]

\* the same call with steps=[...]
WithSteps(o, steps) == [o EXCEPT !.steps = steps]

-----------------------------------------------------------------------------
(* The lengths of the strings the methods format.  A text is measured by its
   number of characters, and by the number of its characters that json.dumps
   writes with a backslash. *)

RECURSIVE NatStrLen(_)
NatStrLen(n) == IF n < 10 THEN 1 ELSE 1 + NatStrLen(n \div 10)

\* len(str(n)) of an integer
IntStrLen(n) == (IF n < 0 THEN 1 ELSE 0) + NatStrLen(AbsInt(n))

\* the number of decimal places of 1/d when d divides a power of ten
RECURSIVE DecimalPlaces(_)
DecimalPlaces(d) ==
    IF d = 1 THEN 0
    ELSE IF d % 10 = 0 THEN 1 + DecimalPlaces(d \div 10)
    ELSE IF d % 2 = 0 THEN 1 + DecimalPlaces(d \div 2)
    ELSE 1 + DecimalPlaces(d \div 5)

RECURSIVE IsDecimalFraction(_)
IsDecimalFraction(d) ==
    \/ d = 1
    \/ d % 2 = 0 /\ IsDecimalFraction(d \div 2)
    \/ d % 5 = 0 /\ IsDecimalFraction(d \div 5)

\* len(str(x)) of a float x, which is also the length json.dumps writes it
\* with: "nan"/"NaN"; "5.0" for a whole number; the decimal expansion when
\* it ends ("0.125").  A value that is no short decimal prints with 16 or 17
\* significant digits, of which 16 decimal places are counted here; math.pi,
\* math.e and math.tau print with 17 characters; another value beyond Limit
\* is counted as d.ddddddddddddddddde+XX.
StrLen(v) ==
    IF v.k = "nan" THEN 3
    ELSE IF v.k = "sym" /\ v.op = "const" THEN 17
    ELSE IF v.k # "rat" THEN 22
    ELSE (IF v.n < 0 THEN 1 ELSE 0) + IntStrLen(AbsInt(v.n) \div v.d) + 1
         + (IF v.d = 1 THEN 1
            ELSE IF IsDecimalFraction(v.d) THEN DecimalPlaces(v.d)
            ELSE 16)

\* len(str(data)) of a list of floats
RECURSIVE ListStrLen(_)
ListStrLen(data) ==
    IF data = <<>> THEN 2
    ELSE IF Len(data) = 1 THEN 2 + StrLen(data[1])
    ELSE StrLen(data[1]) + 2 + ListStrLen(Tail(data))

\* the characters of a text that json.dumps(ensure_ascii=False) escapes
Esc(text) == Cardinality({i \in 1..Len(text) : text[i] \in {"\"", "\\"}})

\* a formatted string: its length, and its number of escaped characters
Str(len, esc) == [len |-> len, esc |-> esc]

\* the ValidationError the constructor raises for these arguments, or NoError
\* (the longer message when the result field is among the failures)
ValidationOf(o) ==
    IF o.result.k \notin {"rat", "sym", "nan", "list"}
    THEN Err("ValidationErrorResult", <<>>)
    ELSE IF Len(Strip(o.expression)) < 1 \/ Len(Strip(o.expression)) > MAX_EXPRESSION_LEN
    THEN Err("ValidationErrorString", <<>>)
    ELSE IF o.error.kind # "none" /\ MsgLen(o.error) > MAX_ERROR_LEN
    THEN Err("ValidationErrorString", <<>>)
    ELSE NoError

\* the object built: str_strip_whitespace strips the expression
Built(o) == [o EXCEPT !.expression = Strip(o.expression)]

\* What a method call did: the outcome it returned, or the exception that
\* escaped it, the texts it passed to eval() and its evaluation trace.
Return(o, ev, tr) == [outcome |-> Built(o), raised |-> NoError, evalTexts |-> ev, trace |-> tr]
Raise(err, ev, tr) == [outcome |-> NoOutcome, raised |-> err, evalTexts |-> ev, trace |-> tr]

\* the handler's result object without its error argument
TryReturn_error_unset(good, failure, expr, sentinel, via, ev, tr) ==
    LET e == IF failure.kind # "none" THEN failure ELSE ValidationOf(good)
        bad == Result("error", expr, sentinel, NoError, <<>>, <<>>)
    IN  IF e.kind = "none" THEN Return(good, ev, tr)
        ELSE IF ValidationOf(bad).kind = "none" THEN Return(bad, ev, tr)
        ELSE Raise(ValidationOf(bad), ev, tr)

\* try: return UnifiedCalculationResult(good)
\* except Exception as e: return UnifiedCalculationResult(operation="error", ...)
\* where `failure` is the exception of the try body if it raised before the
\* constructor (NoError if it did not), and via is the handler's prefix.
TryReturn(good, failure, expr, sentinel, via, ev, tr) ==
    LET e == IF failure.kind # "none" THEN failure ELSE ValidationOf(good)
        bad == Result("error", expr, sentinel, Prefixed(e, via), <<>>, <<>>)
    IN  IF e.kind = "none" THEN Return(good, ev, tr)
        ELSE IF ValidationOf(bad).kind = "none" THEN Return(bad, ev, tr)
        ELSE Raise(ValidationOf(bad), ev, tr)

-----------------------------------------------------------------------------
(* calculate_statistics *)

\* re.match(r'(\w+)\(\[(.*?)\]\)', s): a word at the start, "([", and the
\* text up to the first "])" after it; nothing anchors the end of s
StatMatch(s) ==
    LET j == RunEnd(s, 1, WordChars)
        close == {c \in (j + 2)..Len(s) : StartsAt(s, <<"]", ")">>, c)}
    IN  IF j > 1 /\ StartsAt(s, <<"(", "[">>, j) /\ close # {}
        THEN [ok |-> TRUE, func_name |-> Slice(s, 1, j), data_str |-> Slice(s, j + 2, Min(close))]
        ELSE [ok |-> FALSE, func_name |-> <<>>, data_str |-> <<>>]

\* the items x.strip() of data_str.split(',') that are not empty
NonEmptyStripped(parts) ==
    The({[i \in 1..Len(kept) |-> Strip(kept[i])] :
         kept \in {SelectSeq(parts, LAMBDA part : Strip(part) # <<>>)}})

RECURSIVE SumOf(_)
SumOf(vs) == IF vs = <<>> THEN Num(0) ELSE Add(vs[1], SumOf(Tail(vs)))

Mean(data) == Div(SumOf(data), Num(Len(data)))

\* the k-th smallest of data, with multiplicity
Sorted(data, k) ==
    LET i == CHOOSE c \in 1..Len(data) :
                 /\ Cardinality({m \in 1..Len(data) : Less(data[m], data[c])}) < k
                 /\ k <= Cardinality({m \in 1..Len(data) : ~Less(data[c], data[m])})
    IN  data[i]

Median(data) ==
    LET n == Len(data)
    IN  IF n % 2 = 1 THEN Sorted(data, (n + 1) \div 2)
        ELSE Div(Add(Sorted(data, n \div 2), Sorted(data, n \div 2 + 1)), Num(2))

\* statistics.mode: the most frequent value, the first met among equals
Mode(data) ==
    LET cnt(i) == Cardinality({m \in 1..Len(data) : data[m] = data[i]})
        best == Min({i \in 1..Len(data) : \A m \in 1..Len(data) : cnt(m) <= cnt(i)})
    IN  data[best]

RECURSIVE SquaresOf(_, _)
SquaresOf(vs, c) ==
    IF vs = <<>> THEN Num(0)
    ELSE Add(Mul(Sub(vs[1], c), Sub(vs[1], c)), SquaresOf(Tail(vs), c))

\* statistics.variance: the sample variance, for two data points or more
Variance(data) == Div(SquaresOf(data, Mean(data)), Num(Len(data) - 1))

Stat(func_name, data) ==
    IF \E k \in 1..Len(data) : ~IsRat(data[k]) THEN Sym("stat", <<func_name>> \o data)
    ELSE IF func_name = T_mean THEN Mean(data)
    ELSE IF func_name = T_median THEN Median(data)
    ELSE IF func_name = T_mode THEN Mode(data)
    ELSE IF Len(data) <= 1 THEN Num(0)
    ELSE IF func_name = T_stdev
    THEN (IF IsRat(Variance(data)) THEN Sqrt(Variance(data)) ELSE Sym("stdev", data))
    ELSE Variance(data)

\* [float(x.strip()) for x in data_str.split(',') if x.strip()], on the items
StatData(items) == [k \in 1..Len(items) |-> FloatValue(items[k])]

\* the exception the try body raises before the constructor, or NoError
StatFailure(m, items) ==
    LET notFloat == {k \in 1..Len(items) : ~IsFloatText(items[k])}
    IN  IF ~m.ok THEN Err("StatFormat", <<>>)
        ELSE IF notFloat # {} THEN Err("FloatConversion", items[Min(notFloat)])
        ELSE IF m.func_name \notin {T_mean, T_median, T_mode, T_stdev, T_variance}
        THEN Err("UnknownStat", m.func_name)
        ELSE IF items = <<>> /\ m.func_name \in {T_mean, T_median, T_mode}
        THEN Err("StatisticsError", <<>>)
        ELSE NoError

\* steps=[f"统计函数: {func_name}", f"数据: {data}", f"结果: {result}"], where
\* result is the int 0 for the stdev or variance of fewer than two items
StatSteps(func_name, data, result) ==
    <<Str(6 + Len(func_name), 0), Str(4 + ListStrLen(data), 0),
      Str(4 + (IF func_name \in {T_stdev, T_variance} /\ Len(data) <= 1 THEN IntStrLen(0)
               ELSE StrLen(result)), 0)>>

\* the result object of the try body
StatResult(e, m, data) ==
    The({WithSteps(Result("statistics", e, result, NoError, data, <<>>),
                   StatSteps(m.func_name, data, result)) :
         result \in {Stat(m.func_name, data)}})

StatReturn(e, m, items, failure) ==
    TryReturn(IF failure.kind = "none" THEN StatResult(e, m, StatData(items))
              ELSE Result("statistics", e, NaN, NoError, <<>>, <<>>),
              failure, e, NaN, "statistics", <<>>, <<>>)

calculate_statistics(e) ==
    The({The({The({StatReturn(e, m, items, failure) : failure \in {StatFailure(m, items)}}) :
              items \in {NonEmptyStripped(Split(m.data_str, ","))}}) :
         m \in {StatMatch(e)}})

-----------------------------------------------------------------------------
(* evaluate_expression *)

\* self._eval_node(tree.body) for the result p of ast.parse
EvalParsed(p) ==
    IF p.ok THEN _eval_node(p.node)
    ELSE [ok |-> FALSE, v |-> NaN, err |-> Err("SyntaxError", <<>>), trace |-> <<>>]

\* steps=[f"计算表达式: {expression}", f"结果: {result}"]
ExpressionSteps(e, result) == <<Str(7 + Len(e), Esc(e)), Str(4 + StrLen(result), 0)>>

evaluate_expression(e) ==
    IF HasStatCall(e) THEN calculate_statistics(e)
    ELSE The({TryReturn(WithSteps(Result("expression", e, ev.v, NoError, <<>>, <<>>),
                                  ExpressionSteps(e, ev.v)),
                        ev.err, e, NaN, "", <<>>, ev.trace) :
              ev \in {EvalParsed(ast_parse(e))}})

-----------------------------------------------------------------------------
(* _evaluate_simple_expression: text replacement, then the builtin eval *)

\* str(math.pi) and str(math.e)
STR_PI == <<"3", ".", "1", "4", "1", "5", "9", "2", "6", "5", "3", "5", "8", "9", "7", "9", "3">>
STR_E == <<"2", ".", "7", "1", "8", "2", "8", "1", "8", "2", "8", "4", "5", "9", "0", "4", "5">>

\* the callables of allowed_names (its pi and e are numbers)
allowed_functions == {T_sqrt, T_abs, T_pow}

FuncObject(name) == [k |-> "func", name |-> name]

RECURSIVE PyEval(_), PyEvalArgs(_, _, _)

PyEvalArgs(args, k, vals) ==
    IF k > Len(args) THEN [ok |-> TRUE, vals |-> vals]
    ELSE LET a == PyEval(args[k])
         IN  IF a.ok /\ IsNumber(a.v) THEN PyEvalArgs(args, k + 1, Append(vals, a.v))
             ELSE [ok |-> FALSE, vals |-> vals]

\* eval(node, {"__builtins__": {}}, allowed_names): the object, or ok = FALSE
\* for any exception (the caller swallows them all alike).  Arithmetic is
\* taken on numbers only.
PyEval(node) ==
    IF node.type = "Constant" THEN Returned(node.value)
    ELSE IF node.type = "Name"
    THEN IF node.id \in allowed_functions THEN Returned(FuncObject(node.id))
         ELSE IF node.id \in {T_pi, T_e} THEN Returned(ConstantValue(node.id))
         ELSE Raised("NameError", node.id)
    ELSE IF node.type = "BinOp"
    THEN LET left == PyEval(node.left)
             right == PyEval(node.right)
         IN  IF left.ok /\ right.ok /\ left.v.k \in {"rat", "sym", "complex"}
                /\ right.v.k \in {"rat", "sym", "complex"}
             THEN ApplyBinOp(node.op, left.v, right.v)
             ELSE Raised("TypeError", <<>>)
    ELSE IF node.type = "UnaryOp"
    THEN LET operand == PyEval(node.operand)
         IN  IF operand.ok /\ IsNumber(operand.v)
             THEN Returned(IF node.op = "UAdd" THEN operand.v ELSE Neg(operand.v))
             ELSE Raised("TypeError", <<>>)
    ELSE IF node.type = "Call"
    THEN LET f == PyEval(node.func)
             args == PyEvalArgs(node.args, 1, <<>>)
         IN  IF f.ok /\ f.v.k = "func" /\ args.ok THEN ApplyFunction(f.v.name, args.vals)
             ELSE Raised("TypeError", <<>>)
    ELSE IF node.type = "Compare"
    THEN LET left == PyEval(node.left)
             right == PyEval(node.right)
         IN  IF left.ok /\ right.ok /\ IsRat(left.v) /\ IsRat(right.v)
             THEN Returned(IF left.v = right.v THEN Num(1) ELSE Num(0))
             ELSE Raised("TypeError", <<>>)
    ELSE Raised("TypeError", <<>>)

\* float(eval(text, ...)): eval strips leading blanks itself
PyEvalParsed(p) == IF p.ok THEN PyEval(p.node) ELSE Raised("SyntaxError", <<>>)

FloatOfEval(text) ==
    The({IF r.ok /\ IsNumber(r.v) THEN Returned(r.v)
         ELSE IF r.ok /\ r.v.k = "str" /\ IsFloatText(r.v.s) THEN Returned(FloatValue(r.v.s))
         ELSE Raised("TypeError", <<>>) :
         r \in {PyEvalParsed(ast_parse(Strip(text)))}})

\* [value, evalTexts]: the float returned and the texts handed to eval()
_evaluate_simple_expression(expr) ==
    IF Strip(expr) = <<>> THEN [value |-> Num(0), evalTexts |-> <<>>]
    ELSE The({The({[value |-> IF r.ok THEN r.v
                              ELSE IF IsFloatText(replaced) THEN FloatValue(replaced)
                              ELSE Num(0),
                    evalTexts |-> <<replaced>>] :
                   r \in {FloatOfEval(replaced)}}) :
              replaced \in {Replace(Replace(expr, T_pi, STR_PI), T_e, STR_E)}})

-----------------------------------------------------------------------------
(* solve_linear_equation *)

\* the characters the group ([+-]?\d*\.?\d*) can consume
CoeffChars == Digits \cup {"+", "-", "."}

\* t matches [+-]?\d*\.?\d* entirely
InCoeffLang(t) ==
    LET b == IF t # <<>> /\ t[1] \in {"+", "-"} THEN Tail(t) ELSE t
    IN  /\ \A k \in 1..Len(b) : b[k] \in Digits \cup {"."}
        /\ Cardinality({k \in 1..Len(b) : b[k] = "."}) <= 1

\* ([+-]?\d*\.?\d*)\s*<variable> at position p.  The variable starts with a
\* letter or an underscore and \s* takes blanks only, neither of which the
\* group can consume: the group ends at the first character outside
\* CoeffChars, whatever the backtracking order.
VarTermAt(s, v, p) ==
    LET q == RunEnd(s, p, CoeffChars)
        w == RunEnd(s, q, Spaces)
    IN  IF InCoeffLang(Slice(s, p, q)) /\ StartsAt(s, v, w)
        THEN [ok |-> TRUE, group |-> Slice(s, p, q), next |-> w + Len(v)]
        ELSE [ok |-> FALSE, group |-> <<>>, next |-> p]

\* ([+-]\d+\.?\d*) at position p: every quantifier is greedy and nothing follows
ConstTermAt(s, p) ==
    LET a == RunEnd(s, p + 1, Digits)
        b == FractionEnd(s, a)
    IN  IF s[p] \in {"+", "-"} /\ a > p + 1
        THEN [ok |-> TRUE, group |-> Slice(s, p, b), next |-> b]
        ELSE [ok |-> FALSE, group |-> <<>>, next |-> p]

\* re.findall(pattern, s): the (group 1, group 2) pairs of the successive
\* non-overlapping matches, the first alternative tried first at each position
RECURSIVE FindTerms(_, _, _)
FindTerms(s, v, p) ==
    IF p > Len(s) THEN <<>>
    ELSE The({IF m1.ok THEN <<[coeff_match |-> m1.group, const_match |-> <<>>]>>
                            \o FindTerms(s, v, m1.next)
              ELSE IF m2.ok THEN <<[coeff_match |-> <<>>, const_match |-> m2.group]>>
                                 \o FindTerms(s, v, m2.next)
              ELSE FindTerms(s, v, p + 1) :
              m1 \in {VarTermAt(s, v, p)}, m2 \in {ConstTermAt(s, p)}})

Acc(coeff, constant) == [ok |-> TRUE, coeff |-> coeff, constant |-> constant, err |-> NoError]
AccRaised(acc, text) ==
    [ok |-> FALSE, coeff |-> acc.coeff, constant |-> acc.constant,
     err |-> Err("FloatConversion", text)]

\* the loop "for match in matches" over matches[k..]
RECURSIVE FirstPass(_, _, _)
FirstPass(matches, k, acc) ==
    IF k > Len(matches) \/ ~acc.ok THEN acc
    ELSE LET m == matches[k]
         IN  IF m.coeff_match # <<>>
             THEN IF m.coeff_match = <<"+">>
                  THEN FirstPass(matches, k + 1, Acc(Add(acc.coeff, Num(1)), acc.constant))
                  ELSE IF m.coeff_match = <<"-">>
                  THEN FirstPass(matches, k + 1, Acc(Sub(acc.coeff, Num(1)), acc.constant))
                  ELSE IF IsFloatText(m.coeff_match)
                  THEN FirstPass(matches, k + 1,
                                 Acc(Add(acc.coeff, FloatValue(m.coeff_match)), acc.constant))
                  ELSE AccRaised(acc, m.coeff_match)
             ELSE IF m.const_match # <<>>
             THEN FirstPass(matches, k + 1,
                            Acc(acc.coeff, Add(acc.constant, FloatValue(m.const_match))))
             ELSE FirstPass(matches, k + 1, acc)

\* re.split(r'([+-])', s): the texts between the signs, with the signs
SplitSigns(s) ==
    LET P == {i \in 1..Len(s) : s[i] \in {"+", "-"}}
        n == Cardinality(P)
        lo(k) == IF k = 1 THEN 1 ELSE Nth(P, k - 1) + 1
        hi(k) == IF k = n + 1 THEN Len(s) + 1 ELSE Nth(P, k)
    IN  [j \in 1..(2 * n + 1) |->
            IF j % 2 = 1 THEN Slice(s, lo((j + 1) \div 2), hi((j + 1) \div 2))
            ELSE <<s[Nth(P, j \div 2)]>>]

\* part in '+-'
InPlusMinus(part) == part \in {<<>>, <<"+">>, <<"-">>, <<"+", "-">>}

\* the loop "for i in range(len(parts))" over parts[k..] (k is i + 1)
RECURSIVE SecondPass(_, _, _, _)
SecondPass(parts, v, k, acc) ==
    IF k > Len(parts) \/ ~acc.ok THEN acc
    ELSE LET part == parts[k]
             coeff_str == Replace(Replace(part, v, <<>>), <<"*">>, <<>>)
         IN  IF Contains(part, v)
             THEN IF coeff_str = <<>> \/ coeff_str = <<"+">>
                  THEN SecondPass(parts, v, k + 1, Acc(Num(1), acc.constant))
                  ELSE IF coeff_str = <<"-">>
                  THEN SecondPass(parts, v, k + 1, Acc(Num(-1), acc.constant))
                  ELSE IF IsFloatText(coeff_str)
                  THEN SecondPass(parts, v, k + 1, Acc(FloatValue(coeff_str), acc.constant))
                  ELSE AccRaised(acc, coeff_str)
             ELSE IF part # <<>> /\ ~InPlusMinus(part) /\ k > 1 /\ InPlusMinus(parts[k - 1])
             THEN IF IsFloatText(part)
                  THEN SecondPass(parts, v, k + 1,
                           Acc(acc.coeff,
                               Add(acc.constant,
                                   IF parts[k - 1] = <<"-">> THEN Neg(FloatValue(part))
                                   ELSE FloatValue(part))))
                  ELSE AccRaised(acc, part)
             ELSE SecondPass(parts, v, k + 1, acc)

\* the coefficient and constant extracted from the left side: the regular
\* expression pass, then the split pass when no coefficient was found
ExtractTerms(left_side, v) ==
    The({IF first.ok /\ IsZero(first.coeff) /\ Contains(left_side, v)
         THEN SecondPass(SplitSigns(left_side), v, 1, first)
         ELSE first :
         first \in {FirstPass(FindTerms(left_side, v, 1), 1, Acc(Num(0), Num(0)))}})

\* coeff starts as the int 0: "coeff += 1" and "coeff -= 1" keep it an int,
\* "coeff += float(coeff_match)" makes it a float
FirstCoeffIsInt(matches) ==
    \A k \in 1..Len(matches) : matches[k].coeff_match \in {<<>>, <<"+">>, <<"-">>}

\* constant starts as the int 0 and becomes a float with the first constant
FirstConstantIsInt(matches) ==
    \A k \in 1..Len(matches) : matches[k].coeff_match # <<>> \/ matches[k].const_match = <<>>

\* the second pass assigns coeff in every part that holds the variable: the
\* int 1 or -1, or a float
SecondCoeffIsInt(parts, v, before) ==
    LET P == {k \in 1..Len(parts) : Contains(parts[k], v)}
    IN  IF P = {} THEN before
        ELSE Replace(Replace(parts[Max(P)], v, <<>>), <<"*">>, <<>>)
                 \in {<<>>, <<"+">>, <<"-">>}

\* the second pass adds a constant
SecondAddsConstant(parts, v) ==
    \E k \in 2..Len(parts) :
        /\ ~Contains(parts[k], v)
        /\ parts[k] # <<>> /\ ~InPlusMinus(parts[k]) /\ InPlusMinus(parts[k - 1])

\* the extracted terms with the variable, len(str(coeff)) and
\* len(str(constant))
DescribedTerms(left_side, v, terms) ==
    The({LET second == IsZero(first.coeff) /\ Contains(left_side, v)
             parts == SplitSigns(left_side)
             coeff_int == IF second THEN SecondCoeffIsInt(parts, v, FirstCoeffIsInt(matches))
                          ELSE FirstCoeffIsInt(matches)
             constant_int == FirstConstantIsInt(matches)
                             /\ ~(second /\ SecondAddsConstant(parts, v))
         IN  [ok |-> terms.ok, coeff |-> terms.coeff, constant |-> terms.constant,
              err |-> terms.err, variable |-> v,
              coeff_len |-> IF ~terms.ok THEN 0
                            ELSE IF coeff_int THEN IntStrLen(terms.coeff.n)
                            ELSE StrLen(terms.coeff),
              constant_len |-> IF ~terms.ok THEN 0
                               ELSE IF constant_int THEN IntStrLen(terms.constant.n)
                               ELSE StrLen(terms.constant)] :
         matches \in {FindTerms(left_side, v, 1)},
         first \in {FirstPass(FindTerms(left_side, v, 1), 1, Acc(Num(0), Num(0)))}})

\* steps=[f"原始方程: {equation}", f"解析: {coeff}{variable} + {constant} = {right_value}",
\*        f"移项: {coeff}{variable} = {right_value} - {constant}",
\*        f"求解: {variable} = {solution}"]
LinearSteps(equation, terms, right_value, solution) ==
    <<Str(6 + Len(equation), Esc(equation)),
      Str(4 + terms.coeff_len + Len(terms.variable) + 3 + terms.constant_len + 3
          + StrLen(right_value), Esc(terms.variable)),
      Str(4 + terms.coeff_len + Len(terms.variable) + 3 + StrLen(right_value) + 3
          + terms.constant_len, Esc(terms.variable)),
      Str(4 + Len(terms.variable) + 3 + StrLen(solution), Esc(terms.variable))>>

\* the result object of the try body
LinearResult(equation, terms, right_value, solution) ==
    WithSteps(Result("linear_equation", equation, solution, NoError, <<>>, <<>>),
              LinearSteps(equation, terms, right_value, solution))

\* the exception raised once both sides are read, or NoError
SolveFailure(terms, v) ==
    IF ~terms.ok THEN terms.err
    ELSE IF IsZero(terms.coeff) THEN Err("NoVariable", v)
    ELSE NoError

\* the result object with the constant added to the right side instead of
\* subtracted from it
SolveReturn_constant_added(equation, terms, right, failure) ==
    TryReturn(IF failure.kind = "none"
              THEN LinearResult(equation, terms, right.value,
                                Div(Add(right.value, terms.constant), terms.coeff))
              ELSE Result("linear_equation", equation, NaN, NoError, <<>>, <<>>),
              failure, equation, NaN, "solve", right.evalTexts, <<>>)

\* solution = (right_value - constant) / coeff, and the result object
SolveReturn(equation, terms, right, failure) ==
    TryReturn(IF failure.kind = "none"
              THEN LinearResult(equation, terms, right.value,
                                Div(Sub(right.value, terms.constant), terms.coeff))
              ELSE Result("linear_equation", equation, NaN, NoError, <<>>, <<>>),
              failure, equation, NaN, "solve", right.evalTexts, <<>>)

\* the method on the two sides of the equation
SolveSides(equation, v, left_side, right) ==
    The({SolveReturn(equation, terms, right, SolveFailure(terms, v)) :
         terms \in {DescribedTerms(left_side, v, ExtractTerms(left_side, v))}})

solve_linear_equation(equation, v) ==
    The({IF Len(eq_parts) # 2
         THEN TryReturn(Result("linear_equation", equation, NaN, NoError, <<>>, <<>>),
                        Err("MalformedEquation", <<>>), equation, NaN, "solve", <<>>, <<>>)
         ELSE SolveSides(equation, v, Replace(Strip(eq_parts[1]), <<" ">>, <<>>),
                         _evaluate_simple_expression(Strip(eq_parts[2]))) :
         eq_parts \in {Split(equation, "=")}})

-----------------------------------------------------------------------------
(* process_batch *)

\* the method process_batch calls on one expression of the list
BatchItem(expr, expr_type) ==
    IF expr_type = "linear_equation" THEN solve_linear_equation(expr, <<"x">>)
    ELSE IF expr_type = "statistics" THEN calculate_statistics(expr)
    ELSE evaluate_expression(expr)

\* the loop "for expr in expr_list" over expr_list[lo..hi]: the methods'
\* results in order, or the exception that escaped one of them and ended the
\* loop; the range is walked as its first half and then its second half
RECURSIVE BatchLoop(_, _, _)
BatchLoop(expr_list, lo, hi) ==
    IF lo > hi
    THEN [batch_results |-> <<>>, raised |-> NoError, evalTexts |-> <<>>, trace |-> <<>>]
    ELSE IF lo = hi
    THEN The({[batch_results |-> IF r.raised.kind = "none" THEN <<r.outcome>> ELSE <<>>,
               raised |-> r.raised, evalTexts |-> r.evalTexts, trace |-> r.trace] :
              r \in {BatchItem(expr_list[lo], detect_expression_type(expr_list[lo]))}})
    ELSE The({IF first.raised.kind # "none" THEN first
              ELSE The({[batch_results |-> first.batch_results \o rest.batch_results,
                         raised |-> rest.raised,
                         evalTexts |-> first.evalTexts \o rest.evalTexts,
                         trace |-> first.trace \o rest.trace] :
                        rest \in {BatchLoop(expr_list, (lo + hi) \div 2 + 1, hi)}}) :
              first \in {BatchLoop(expr_list, lo, (lo + hi) \div 2)}})

\* [r.result for r in batch_results if r.operation != "error"]
SuccessfulValues(batch_results) ==
    The({[i \in 1..Len(good) |-> good[i].result] :
         good \in {SelectSeq(batch_results, LAMBDA r : r.operation # "error")}})

\* steps=[f"批量处理 {len(expr_list)} 个表达式",
\*        *[f"  {i+1}. {r.expression} = {r.result}" for i, r in enumerate(batch_results)]]
BatchSteps(batch_results) ==
    <<Str(5 + IntStrLen(Len(batch_results)) + 5, 0)>>
    \o [i \in 1..Len(batch_results) |->
            Str(2 + IntStrLen(i) + 2 + Len(batch_results[i].expression) + 3
                + StrLen(batch_results[i].result), Esc(batch_results[i].expression))]

process_batch(expressions) ==
    The({TryReturn(WithSteps(Result("batch_calculation", expressions,
                                    ListResult(SuccessfulValues(loop.batch_results)),
                                    NoError, <<>>, loop.batch_results),
                             BatchSteps(loop.batch_results)),
                   loop.raised, expressions, ListResult(<<>>), "batch",
                   loop.evalTexts, loop.trace) :
         loop \in {The({BatchLoop(expr_list, 1, Len(expr_list)) :
                         expr_list \in {NonEmptyStripped(Split(expressions, ";"))}})}})

-----------------------------------------------------------------------------
(* calculate: input validation and dispatch *)

\* Field(max_length=10) of variable
MAX_VARIABLE_LEN == 10

\* CalculateInput(...): the expression is stripped and must hold 1..1000
\* characters, the variable must match ^[a-zA-Z_][a-zA-Z0-9_]*$ in 1..10
ValidInput(e, v) ==
    /\ Len(Strip(e)) >= 1
    /\ Len(Strip(e)) <= MAX_EXPRESSION_LEN
    /\ Len(Strip(v)) >= 1
    /\ Len(Strip(v)) <= MAX_VARIABLE_LEN
    /\ Strip(v)[1] \in Letters \cup {"_"}
    /\ \A k \in 1..Len(Strip(v)) : Strip(v)[k] \in WordChars

\* the result object of calculate's dispatch on a validated input
DispatchOn(expression_type, e, v) ==
    IF expression_type = "linear_equation" THEN solve_linear_equation(e, v)
    ELSE IF expression_type = "batch_calculation" THEN process_batch(e)
    ELSE IF expression_type = "statistics" THEN calculate_statistics(e)
    ELSE evaluate_expression(e)

Dispatch(e, v) == DispatchOn(detect_expression_type(e), e, v)

-----------------------------------------------------------------------------
(* calculate: the string returned.  It is described by its length, by the
   length it had before the truncation step, by the result member of the
   JSON object and by the numbered lines of a Markdown batch. *)

\* CHARACTER_LIMIT
CHARACTER_LIMIT == 25000

\* len(datetime.now().isoformat()): the microseconds are left out when zero
TimestampLens == {19, 26}

\* len(result.operation)
OperationLen(operation) ==
    CASE operation = "expression" -> 10
      [] operation = "linear_equation" -> 15
      [] operation = "statistics" -> 10
      [] operation = "batch_calculation" -> 17
      [] operation = "error" -> 5

\* the sum of lens[lo..hi]
RECURSIVE SumLens(_, _, _)
SumLens(lens, lo, hi) ==
    IF lo > hi THEN 0
    ELSE IF lo = hi THEN lens[lo]
    ELSE SumLens(lens, lo, (lo + hi) \div 2) + SumLens(lens, (lo + hi) \div 2 + 1, hi)

\* "\n".join(lines), and the lines of json.dumps(indent=2) between brackets
Joined(lens, sep) ==
    IF lens = <<>> THEN 0 ELSE SumLens(lens, 1, Len(lens)) + sep * (Len(lens) - 1)

\* json.dumps of a string
JsonStr(s) == s.len + s.esc + 2

\* "key": value on a line indented by indent
JsonMember(indent, key_len, value_len) == indent + key_len + 2 + 2 + value_len

\* { members } or [ items ], closed on a line indented by indent; [] if empty
JsonBlock(lens, indent) ==
    IF lens = <<>> THEN 2 ELSE 2 + Joined(lens, 2) + 1 + indent + 1

\* a list of floats as the value of a member of the top object
JsonFloats(items) == JsonBlock([i \in 1..Len(items) |-> 4 + StrLen(items[i])], 2)

\* result.result as the value of "result"
JsonResult(result) == IF result.k = "list" THEN JsonFloats(result.items) ELSE StrLen(result)

\* the error message as a string
ErrorStr(err) == Str(MsgLen(err), Esc(err.arg))

\* {"operation": ..., "expression": ..., "result": ...} of a batch result
JsonBatchResult(br) ==
    JsonBlock(<<JsonMember(6, 9, OperationLen(br.operation) + 2),
                JsonMember(6, 10, JsonStr(Str(Len(br.expression), Esc(br.expression)))),
                JsonMember(6, 6, StrLen(br.result))>>, 4)

\* the members of result_dict: the six fixed ones, data and batch_results
\* when not None, and the two the truncation adds
JsonMembers(o, ts, result, truncated) ==
    <<JsonMember(2, 9, OperationLen(o.operation) + 2),
      JsonMember(2, 10, JsonStr(Str(Len(o.expression), Esc(o.expression)))),
      JsonMember(2, 6, JsonResult(result)),
      JsonMember(2, 9, ts + 2),
      JsonMember(2, 5, IF o.steps = <<>> THEN 4
                       ELSE JsonBlock([i \in 1..Len(o.steps) |-> 4 + JsonStr(o.steps[i])], 2)),
      JsonMember(2, 5, IF o.error.kind = "none" THEN 4 ELSE JsonStr(ErrorStr(o.error)))>>
    \o (IF o.operation = "statistics" THEN <<JsonMember(2, 4, JsonFloats(o.data))>> ELSE <<>>)
    \o (IF o.operation = "batch_calculation"
        THEN <<JsonMember(2, 13,
                   JsonBlock([i \in 1..Len(o.batch_results) |->
                                  4 + JsonBatchResult(o.batch_results[i])], 2))>>
        ELSE <<>>)
    \o (IF truncated
        THEN <<JsonMember(2, 9, 4), JsonMember(2, 18, 6 + IntStrLen(CHARACTER_LIMIT) + 28 + 2)>>
        ELSE <<>>)

\* len(json.dumps(result_dict, indent=2, ensure_ascii=False))
JsonLen(o, ts, result, truncated) == JsonBlock(JsonMembers(o, ts, result, truncated), 0)

\* result_dict["result"][:len(result_dict["result"])//2]
FirstHalf(result) ==
    IF result.k = "list" THEN ListResult(SubSeq(result.items, 1, Len(result.items) \div 2))
    ELSE result

NoRendering ==
    [returned |-> FALSE, len |-> 0, full_len |-> 0, truncated |-> FALSE, result |-> NaN,
     pairs |-> <<>>]

Rendering(len, full_len, truncated, result, pairs) ==
    [returned |-> TRUE, len |-> len, full_len |-> full_len, truncated |-> truncated,
     result |-> result, pairs |-> pairs]

\* the JSON branch without the shortening of a list result
RenderJson_keeps_whole_result(o, ts) ==
    The({IF full > CHARACTER_LIMIT
         THEN Rendering(JsonLen(o, ts, o.result, TRUE), full, TRUE, o.result, <<>>)
         ELSE Rendering(full, full, FALSE, o.result, <<>>) :
         full \in {JsonLen(o, ts, o.result, FALSE)}})

\* the JSON branch: the serialization, and the truncation step when it is
\* longer than CHARACTER_LIMIT
RenderJson(o, ts) ==
    The({IF full > CHARACTER_LIMIT
         THEN Rendering(JsonLen(o, ts, FirstHalf(o.result), TRUE), full, TRUE,
                        FirstHalf(o.result), <<>>)
         ELSE Rendering(full, full, FALSE, o.result, <<>>) :
         full \in {JsonLen(o, ts, o.result, FALSE)}})

\* the lines of the Markdown rendering of a result without error
MarkdownLines(o, v, ts) ==
    <<8, 0, 10 + Len(o.expression) + 1, 10 + OperationLen(o.operation)>>
    \o (IF o.operation = "batch_calculation" /\ o.result.k = "list"
        THEN <<0, 9, 0>>
             \o [i \in 1..Len(o.result.items) |->
                    IntStrLen(i) + 3 + Len(o.batch_results[i].expression) + 6
                    + StrLen(o.result.items[i]) + 2]
        ELSE IF o.operation = "linear_equation"
        THEN <<0, 9, 0, 2 + Len(v) + 7 + StrLen(o.result) + 2>>
        ELSE <<0, 5, 0, 4 + StrLen(o.result)>>)
    \o (IF o.steps # <<>>
        THEN <<0, 7, 0>> \o [i \in 1..Len(o.steps) |-> 2 + o.steps[i].len]
        ELSE <<>>)
    \o <<0, 3, 7 + ts + 1>>

\* for i, val in enumerate(result.result, 1):
\*     f"{i}. `{result.batch_results[i-1].expression}` = **{val}**"
\* the expression and the value of the first `shown` numbered lines
BatchLinePairs(o, shown) ==
    IF o.operation = "batch_calculation" /\ o.result.k = "list"
    THEN [i \in 1..Min({shown, Len(o.result.items)}) |->
             [expression |-> o.batch_results[i].expression, value |-> o.result.items[i]]]
    ELSE <<>>

\* the Markdown branch: the error block, or the lines and the truncation
\* step, which keeps lines[:len(lines)//2] and appends two lines; the
\* numbered lines of a batch start at the eighth line
RenderMarkdown(o, v, ts) ==
    IF o.error.kind # "none"
    THEN The({Rendering(len, len, FALSE, o.result, <<>>) :
              len \in {12 + 10 + Len(o.expression) + 2 + 8 + MsgLen(o.error)}})
    ELSE The({The({IF full > CHARACTER_LIMIT
                   THEN Rendering(Joined(SubSeq(lines, 1, Len(lines) \div 2) \o <<0, 15>>, 1),
                                  full, TRUE, o.result,
                                  BatchLinePairs(o, Max({0, Len(lines) \div 2 - 7})))
                   ELSE Rendering(full, full, FALSE, o.result,
                                  BatchLinePairs(o, Len(lines))) :
                   full \in {Joined(lines, 1)}}) :
              lines \in {MarkdownLines(o, v, ts)}})

\* the string a handler of calculate returns for the message of msg_len
\* characters: the JSON object of the five members, or the marked line
ErrorResponse(expr, format, ts, msg) ==
    The({Rendering(len, len, FALSE, NaN, <<>>) :
         len \in {IF format = "json"
                  THEN JsonBlock(<<JsonMember(2, 9, OperationLen("error") + 2),
                                   JsonMember(2, 10, JsonStr(Str(Len(expr), Esc(expr)))),
                                   JsonMember(2, 6, StrLen(NaN)),
                                   JsonMember(2, 9, ts + 2),
                                   JsonMember(2, 5, JsonStr(msg))>>, 0)
                  ELSE 10 + msg.len}})

\* except Exception as e, around CalculateInput(...): f"输入验证失败: {str(e)}"
\* with the expression as given
RenderInvalid(expr, format, ts) ==
    ErrorResponse(expr, format, ts, Str(8 + BaseLen("ValidationErrorString"), 0))

\* the handler of the dispatch and rendering with the exception raised again
CalculateExcept_reraises(err, expr, format, ts) ==
    [NoRendering EXCEPT !.len = MsgLen(Prefixed(err, "calculate"))]

\* except Exception as e, around the dispatch and the rendering:
\* f"计算失败: {str(e)}" with the validated expression
CalculateExcept(err, expr, format, ts) ==
    ErrorResponse(expr, format, ts, ErrorStr(Prefixed(err, "calculate")))

\* the try block of calculate on the result r of the dispatch
Respond(r, expr, v, format, ts) ==
    IF r.raised.kind # "none" THEN CalculateExcept(r.raised, expr, format, ts)
    ELSE IF format = "json" THEN RenderJson(r.outcome, ts)
    ELSE RenderMarkdown(r.outcome, v, ts)

-----------------------------------------------------------------------------
(* The texts the methods are applied to *)

\* operands of the arithmetic texts: 0 .. MaxOperand
MaxOperand == 2
\* coefficients and constants of the equation texts: -MaxCoef .. MaxCoef
MaxCoef == 2
\* the length of the long identifier
LongNameLen == 495

RECURSIVE NatText(_)
NatText(n) == IF n < 10 THEN <<DigitSeq[n + 1]>> ELSE NatText(n \div 10) \o <<DigitSeq[(n % 10) + 1]>>

\* str(n) of an integer
NumText(n) == IF n < 0 THEN <<"-">> \o NatText(-n) ELSE NatText(n)

BinOpTexts == {<<"+">>, <<"-">>, <<"*">>, <<"/">>, <<"/", "/">>, <<"%">>, <<"*", "*">>}

Operands == 0..MaxOperand
Coefs == (-MaxCoef)..MaxCoef

T_foo == <<"f","o","o">>
T_x == <<"x">>
T_y == <<"y">>
T_import == <<"i","m","p","o","r","t">>
T_exec == <<"e","x","e","c">>
T_eval == <<"e","v","a","l">>
T_open == <<"o","p","e","n">>
T_dunder == <<"_","_">>
T_os_call == <<"(", "'", "o", "s", "'", ")">>
LongName == Rep("a", LongNameLen)

\* "a op1 b op2 c", "a+b*c", "a**b**c", "-a op b" and "(a op1 b) op2 c"
ArithTexts ==
    {NumText(a) \o <<"+">> \o NumText(b) \o <<"*">> \o NumText(c) :
        a \in Operands, b \in Operands, c \in Operands}
    \cup {NumText(a) \o <<"*", "*">> \o NumText(b) \o <<"*", "*">> \o NumText(c) :
        a \in Operands, b \in Operands, c \in Operands}
    \cup
    {NumText(a) \o o1 \o NumText(b) \o o2 \o NumText(c) :
        a \in Operands, b \in Operands, c \in {MaxOperand}, o1 \in BinOpTexts,
        o2 \in BinOpTexts}
    \cup {<<"-">> \o NumText(a) \o o1 \o NumText(b) :
        a \in Operands, b \in Operands, o1 \in BinOpTexts}
    \cup {<<"(">> \o NumText(a) \o o1 \o NumText(b) \o <<")">> \o o2 \o NumText(c) :
        a \in Operands, b \in Operands, c \in {MaxOperand}, o1 \in {<<"+">>, <<"-">>},
        o2 \in {<<"*">>, <<"/">>, <<"*", "*">>}}
    \cup {<<"2", " ", "+", " ", "3", " ", "*", " ", "4">>,
          <<"(", "2", " ", "+", " ", "3", ")", " ", "*", " ", "4">>,
          <<"2", " ", "*", "*", " ", "3", " ", "*", "*", " ", "2">>,
          <<"5", " ", "/", " ", "0">>, <<"5", " ", "/", "/", " ", "0">>,
          <<"5", " ", "%", " ", "0">>, <<"2", "+", "3">>}

\* operands with and without a disallowed node, a division by zero, a call
NodeTexts ==
    {<<"2">>, <<"1", "/", "0">>, <<"s","q","r","t","(","4",")">>, T_foo,
     T_foo \o <<"(", "1", ")">>, <<"'", "o", "s", "'">>, <<"[", "1", "]">>, T_pi,
     <<"a","b","s","(">> \o T_foo \o <<")">>, <<"m","a","x","(","1",",","2",")">>}

MixedTexts ==
    {l \o o \o r : l \in NodeTexts, r \in NodeTexts, o \in {<<"+">>, <<"/">>}}
    \cup NodeTexts
    \cup {<<"-">> \o l : l \in NodeTexts}

\* right sides without a variable: a sum, and an "e" inside a longer token
RightSideTexts == {<<"2", "+", "3">>, <<"1", "e", "3">>, T_tau, <<"2", "*">> \o T_e}

\* "{a}v + {b} = {c}" as str.format writes it, and the documented variants
EquationTexts ==
    {NumText(a) \o v \o <<" ", "+", " ">> \o NumText(b) \o <<" ", "=", " ">> \o NumText(c) :
        a \in Coefs, b \in Coefs, c \in Coefs, v \in {T_x}}
    \cup {s \o v \o <<" ", "+", " ">> \o NumText(b) \o <<" ", "=", " ">> \o NumText(c) :
        s \in {<<>>, <<"-">>}, b \in Coefs, c \in Coefs, v \in {T_x}}
    \cup {NumText(a) \o <<"*">> \o v \o <<" ", "+", " ">> \o NumText(b) \o <<" ", "=", " ">>
          \o NumText(c) :
        a \in Coefs, b \in Coefs, c \in {MaxCoef}, v \in {T_x, T_y}}
    \cup {NumText(b) \o <<"+">> \o NumText(a) \o v \o <<"=">> \o NumText(c) :
        a \in {1, MaxCoef}, b \in Coefs, c \in {0, MaxCoef}, v \in {T_x}}
    \cup {NumText(a) \o T_x \o <<" ", "=", " ">> \o T_x \o <<" ", "+", " ">> \o NumText(c) :
        a \in Coefs, c \in Coefs}
    \cup {NumText(c) \o <<" ", "=", " ">> \o T_x : c \in Coefs}
    \cup {T_x \o <<"=">> \o r : r \in NodeTexts \cup RightSideTexts}
    \cup {<<"2", "x", " ", "+", " ", "3", " ", "=", " ", "7">>,
          <<"3", "*", "y", " ", "-", " ", "5", " ", "=", " ", "1", "0">>,
          <<"2", "x", " ", "-", " ", "3", " ", "=", " ", "0">>,
          <<"2", "x", " ", "=", " ", "x", " ", "+", " ", "3">>,
          <<"3", " ", "=", " ", "x">>, <<"x", " ", "=", " ", "x">>,
          <<"x", " ", "=", " ", "x", " ", "+", " ", "1">>,
          <<"0", "x", " ", "+", " ", "3", " ", "=", " ", "3">>,
          <<"2", "x", "+", "3", "=", "1", "e", "3">>,
          <<".", "x", "=", "1">>, <<"2", "x", "=", "0", "1">>,
          <<"2", "x", "=", "3", "=", "4">>, <<"x", "=">>, <<"=", "x">>}

\* the segments of the batches
PlainSegments == {<<"2", "+", "3">>, <<"1", "/", "0">>, <<"4", "*", "5">>, T_foo}

SegmentTexts ==
    PlainSegments
    \cup {<<>>, <<" ", "2", " ">>, <<"2", "x", "=", "4">>,
          <<"m","e","a","n","(","[","1",",","2",",","3","]",")">>}

\* two and three segments, and the long identifier as one segment among
\* plain ones
BatchTexts ==
    {a \o <<";">> \o b : a \in SegmentTexts, b \in SegmentTexts}
    \cup {a \o <<";">> \o b \o <<";">> \o c :
            a \in PlainSegments, b \in PlainSegments, c \in PlainSegments}
    \cup {a \o <<";">> \o LongName : a \in PlainSegments}
    \cup {LongName \o <<";">> \o a : a \in PlainSegments}
    \cup {a \o <<";">> \o LongName \o <<";">> \o b : a \in PlainSegments, b \in PlainSegments}
    \cup {<<"2", "+", "3", ";", " ", "1", "/", "0", ";", " ", "4", "*", "5">>, LongName}

\* pieces that carry the cues of the type detection, in every order
CuePieces ==
    {<<"2", "x">>, <<"=", "3">>, <<";", "4">>, <<"m","e","a","n","(","[","1","]",")">>,
     <<"7">>}

CueTexts ==
    CuePieces
    \cup {a \o b : a \in CuePieces, b \in CuePieces}
    \cup {a \o b \o c : a \in CuePieces, b \in CuePieces, c \in CuePieces}

\* texts with the substrings import, exec, eval, open and __
DenyWords == {T_import, T_exec, T_eval, T_open, T_dunder}

DenyTexts ==
    DenyWords
    \cup {T_x \o <<"=">> \o d : d \in DenyWords}
    \cup {d \o <<"(", "1", ")">> : d \in DenyWords}
    \cup {<<"2", "+">> \o d : d \in DenyWords}
    \cup {<<"2", "+", "3", ";">> \o d : d \in DenyWords}
    \cup {<<"m","e","a","n","(","[","1",",","2","]",")","+">> \o d : d \in DenyWords}
    \cup {T_dunder \o T_import \o T_dunder \o T_os_call,
          T_x \o <<"=">> \o T_dunder \o T_import \o T_dunder \o T_os_call,
          <<"2", "+", "3", " ", "#">> \o T_eval}

\* statistics calls: alone, with a text after or before them, on an empty
\* list, on one item, with an unknown name
StatTexts ==
    {name \o <<"(", "[">> \o items \o <<"]", ")">> \o rest :
        name \in {T_mean, T_median, T_mode, T_stdev, T_variance, T_foo},
        items \in {<<>>, <<"1">>, <<"1", ",", "2", ",", "3">>, <<"3", ",", " ", "1", ",", "1">>},
        rest \in {<<>>, <<" ", "+", " ", "1", "0", "0">>}}
    \cup {<<"1", "+">> \o T_mean \o <<"(", "[", "1", ",", "2", ",", "3", "]", ")">>,
          T_mean \o <<"(", "[", "1", ",", "a", "]", ")">>,
          T_mean \o <<"(", "1", ",", "2", ")">>}

\* texts the input validation of calculate rejects
InvalidTexts == {<<>>, <<" ">>}

\* the number of segments of the longest batch of one-digit segments
ManySegments == 210
\* the number of segments of the batch of one-letter constants
ManyConstants == 395

\* n segments c joined by ";"
Repeated(c, n) == [i \in 1..(2 * n - 1) |-> IF i % 2 = 1 THEN c ELSE ";"]

\* batches whose rendering is near or beyond CHARACTER_LIMIT
LongBatchTexts ==
    {Repeated("1", n) : n \in {ManySegments - 10, ManySegments - 5, ManySegments}}
    \cup {Repeated("e", ManyConstants)}

Expressions ==
    ArithTexts \cup MixedTexts \cup EquationTexts \cup BatchTexts \cup CueTexts
    \cup DenyTexts \cup StatTexts \cup InvalidTexts \cup LongBatchTexts

Variables == {T_x, T_y}
\* a variable name the input validation of calculate rejects
InvalidVariables == {<<"2", "x">>}
ResponseFormats == {"markdown", "json"}
\* the formats a request may name: the two of ResponseFormat and another
RawFormats == ResponseFormats \cup {"xml"}

-----------------------------------------------------------------------------
(* The state machine: a text, and one call of a method on it *)

Init ==
    /\ pc = "ready"
    /\ expression \in Expressions
    /\ called = ""
    /\ variable = <<>>
    /\ response_format = ""
    /\ outcome = NoOutcome
    /\ raised = NoError
    /\ detected = ""
    /\ evalTexts = <<>>
    /\ trace = <<>>
    /\ response = ""
    /\ rendering = NoRendering

\* the method returns (or raises): r is what the call did
Finish(name, r) ==
    /\ pc' = "done"
    /\ called' = name
    /\ outcome' = r.outcome
    /\ raised' = r.raised
    /\ evalTexts' = r.evalTexts
    /\ trace' = r.trace
    /\ UNCHANGED expression

DetectExpressionType ==
    /\ pc = "ready"
    /\ pc' = "done"
    /\ called' = "detect_expression_type"
    /\ detected' = detect_expression_type(expression)
    /\ UNCHANGED <<expression, variable, outcome, raised, evalTexts, trace,
                   response_format, response, rendering>>

EvaluateExpression ==
    /\ pc = "ready"
    /\ Finish("evaluate_expression", evaluate_expression(expression))
    /\ UNCHANGED <<variable, detected, response_format, response, rendering>>

SolveLinearEquation ==
    /\ pc = "ready"
    /\ \E v \in Variables :
        /\ variable' = v
        /\ Finish("solve_linear_equation", solve_linear_equation(expression, v))
    /\ UNCHANGED <<detected, response_format, response, rendering>>

CalculateStatistics ==
    /\ pc = "ready"
    /\ Finish("calculate_statistics", calculate_statistics(expression))
    /\ UNCHANGED <<variable, detected, response_format, response, rendering>>

ProcessBatch ==
    /\ pc = "ready"
    /\ Finish("process_batch", process_batch(expression))
    /\ UNCHANGED <<variable, detected, response_format, response, rendering>>

\* calculate: validation, dispatch on the stripped expression, and the kind
\* of string returned
Calculate ==
    /\ pc = "ready"
    /\ \E v \in Variables \cup InvalidVariables :
        /\ variable' = v
        /\ IF ~ValidInput(expression, v)
           THEN /\ Finish("calculate", Raise(NoError, <<>>, <<>>))
                /\ detected' = ""
                /\ response' = "validation_error"
                /\ \E f \in RawFormats, ts \in TimestampLens :
                        /\ response_format' = f
                        /\ rendering' = RenderInvalid(expression, f, ts)
           ELSE \E r \in {Dispatch(Strip(expression), v)} :
                    \E f \in RawFormats, ts \in TimestampLens :
                        /\ response_format' = f
                        /\ IF f \notin ResponseFormats
                           THEN /\ Finish("calculate", Raise(NoError, <<>>, <<>>))
                                /\ detected' = ""
                                /\ response' = "validation_error"
                                /\ rendering' = RenderInvalid(expression, f, ts)
                           ELSE /\ Finish("calculate", r)
                                /\ detected' = detect_expression_type(Strip(expression))
                                /\ response' = IF r.raised.kind # "none" THEN "fault"
                                               ELSE IF f = "json" THEN "json"
                                               ELSE IF r.outcome.error.kind # "none"
                                               THEN "markdown_error"
                                               ELSE "markdown"
                                /\ rendering' = Respond(r, Strip(expression), v, f, ts)

Next ==
    \/ DetectExpressionType
    \/ EvaluateExpression
    \/ SolveLinearEquation
    \/ CalculateStatistics
    \/ ProcessBatch
    \/ Calculate

Spec == Init /\ [][Next]_vars

-----------------------------------------------------------------------------
(* The properties *)

\* a call has returned
Done(method) == pc = "done" /\ called = method

\* C1: detect_expression_type classifies every text by the first match among:
\* an '=' together with a letter -> linear_equation; a ';' ->
\* batch_calculation; a call of mean/median/mode/stdev/variance ->
\* statistics; otherwise -> expression.
C1_DetectPriority ==
    Done("detect_expression_type") =>
        LET has(c) == \E i \in 1..Len(expression) : expression[i] = c
            letter == \E i \in 1..Len(expression) : expression[i] \in Letters
            call == \E name \in {T_mean, T_median, T_mode, T_stdev, T_variance} :
                        Contains(expression, name \o <<"(">>)
        IN  detected = IF has("=") /\ letter THEN "linear_equation"
                       ELSE IF has(";") THEN "batch_calculation"
                       ELSE IF call THEN "statistics"
                       ELSE "expression"

\* "2x=3;4" has been classified, as a linear equation
C1_Witness ==
    /\ Done("detect_expression_type")
    /\ expression = <<"2", "x", "=", "3", ";", "4">>
    /\ detected = "linear_equation"

\* C2: process_batch returns a batch_calculation outcome that holds one
\* outcome per non-empty trimmed segment, in input order, and whose result is
\* the list of the successful segments' values; the failure of a segment,
\* whatever its message, never makes the batch an error outcome.
C2_BatchIsolation ==
    (Done("process_batch") /\ Contains(expression, <<";">>)) =>
        LET segments == NonEmptyStripped(Split(expression, ";"))
        IN  /\ raised = NoError
            /\ outcome.operation = "batch_calculation"
            /\ Len(outcome.batch_results) = Len(segments)
            /\ \A k \in 1..Len(segments) : outcome.batch_results[k].expression = segments[k]
            /\ outcome.result = ListResult(SuccessfulValues(outcome.batch_results))

\* C3: calculate passes no text to the builtin eval() or exec(), on any route.
C3_NoEvalCall == Done("calculate") => evalTexts = <<>>

\* a node the allow-lists reject somewhere in the tree: an unknown name, an
\* unknown function, a constant that is not a number, an unsupported node
RECURSIVE HasDisallowedNode(_)
HasDisallowedNode(node) ==
    CASE node.type = "Constant" -> ~IsNumber(node.value)
      [] node.type = "Name" -> node.id \notin safe_constants
      [] node.type = "BinOp" -> HasDisallowedNode(node.left) \/ HasDisallowedNode(node.right)
      [] node.type = "UnaryOp" -> HasDisallowedNode(node.operand)
      [] node.type = "Call" ->
            \/ node.func.type # "Name"
            \/ node.func.id \notin safe_functions
            \/ \E k \in 1..Len(node.args) : HasDisallowedNode(node.args[k])
      [] OTHER -> TRUE

\* C4: an expression whose tree holds a disallowed node is rejected before any
\* operator or function is applied to a node of the tree, and the failure
\* reported is the rejection, not a failure of evaluating another operand.
C4_ValidationPrecedesEvaluation ==
    (Done("evaluate_expression") /\ ~HasStatCall(expression)) =>
        \A p \in {ast_parse(expression)} :
            (p.ok /\ HasDisallowedNode(p.node)) =>
                /\ trace = <<>>
                /\ outcome.operation = "error"
                /\ outcome.error.kind \in {"UnknownName", "UnknownFunction", "BadCallForm",
                                           "BadConstant", "BadNode"}

\* C5: an input of calculate whose text holds "import", "exec", "eval",
\* "open" or "__" yields a failure on every route and for every variable,
\* and "2+3" succeeds.
C5_DenylistedTextFails ==
    Done("calculate") =>
        /\ (\E d \in DenyWords : Contains(expression, d)) =>
               \/ response \in {"validation_error", "fault"}
               \/ outcome.operation = "error"
        /\ expression = <<"2", "+", "3">> =>
               outcome.operation = "expression" /\ outcome.result = Num(5)

\* C6: when evaluate_expression has evaluated a '/', '//' or '%' node whose
\* right operand is zero, the outcome is an error outcome with a message.
C6_DivisionByZeroFails ==
    (Done("evaluate_expression")
     /\ \E k \in 1..Len(trace) :
            /\ trace[k].node = "BinOp"
            /\ trace[k].op \in {"Div", "FloorDiv", "Mod"}
            /\ trace[k].zero) =>
        /\ raised = NoError
        /\ outcome.operation = "error"
        /\ outcome.error.kind # "none"

\* "5 // 0" has been evaluated: its outcome is the division-by-zero error
C6_Witness ==
    /\ Done("evaluate_expression")
    /\ expression = <<"5", " ", "/", "/", " ", "0">>
    /\ Len(trace) = 1 /\ trace[1].op = "FloorDiv" /\ trace[1].zero
    /\ outcome.operation = "error"
    /\ outcome.error.kind = "ZeroDivision"

\* C7, as the grammar of ast.parse has it: '**' binds tightest and groups to
\* the right, then the unary sign, then '*', '/', '//', '%', then binary '+',
\* '-'.  "a+b*c" is a+(b*c), "a**b**c" is a**(b**c), "-a**b" is -(a**b), and
\* the sign binds before a multiplicative operator: "-a%b" is (-a)%b and
\* "-a//b" is (-a)//b.
C7_Precedence ==
    Done("evaluate_expression") =>
        LET Is(val) == outcome.operation = "expression" /\ outcome.result = val
            N(n) == NumText(n)
        IN  \A a \in Operands, b \in Operands :
                /\ \A c \in Operands :
                    /\ expression = N(a) \o <<"+">> \o N(b) \o <<"*">> \o N(c)
                           => Is(Add(Num(a), Mul(Num(b), Num(c))))
                    /\ expression = N(a) \o <<"*", "*">> \o N(b) \o <<"*", "*">> \o N(c)
                           => Is(PowFloats(Num(a), PowFloats(Num(b), Num(c)).v).v)
                /\ expression = <<"-">> \o N(a) \o <<"*", "*">> \o N(b)
                       => Is(Neg(PowFloats(Num(a), Num(b)).v))
                /\ (b # 0 /\ expression = <<"-">> \o N(a) \o <<"%">> \o N(b))
                       => Is(Mod(Neg(Num(a)), Num(b)))
                /\ (b # 0 /\ expression = <<"-">> \o N(a) \o <<"/", "/">> \o N(b))
                       => Is(FloorDiv(Neg(Num(a)), Num(b)))

\* "-1%2" has been evaluated, to 1
C7_Witness ==
    /\ Done("evaluate_expression")
    /\ expression = <<"-", "1", "%", "2">>
    /\ outcome.operation = "expression"
    /\ outcome.result = Num(1)

\* C7 as stated: "a+b*c" is a+(b*c), "a**b**c" is a**(b**c), and a minus sign
\* in front of a multiplicative term negates the whole term: "-a%b" is
\* -(a%b) and "-a//b" is -(a//b).
C7_SignNegatesWholeTerm ==
    Done("evaluate_expression") =>
        LET Is(val) == outcome.operation = "expression" /\ outcome.result = val
            N(n) == NumText(n)
        IN  \A a \in Operands, b \in Operands :
                /\ \A c \in Operands :
                    /\ expression = N(a) \o <<"+">> \o N(b) \o <<"*">> \o N(c)
                           => Is(Add(Num(a), Mul(Num(b), Num(c))))
                    /\ expression = N(a) \o <<"*", "*">> \o N(b) \o <<"*", "*">> \o N(c)
                           => Is(PowFloats(Num(a), PowFloats(Num(b), Num(c)).v).v)
                /\ (b # 0 /\ expression = <<"-">> \o N(a) \o <<"%">> \o N(b))
                       => Is(Neg(Mod(Num(a), Num(b))))
                /\ (b # 0 /\ expression = <<"-">> \o N(a) \o <<"/", "/">> \o N(b))
                       => Is(Neg(FloorDiv(Num(a), Num(b))))

\* C8: for a # 0, solve_linear_equation on "{a}x + {b} = {c}" with variable x
\* returns a linear_equation outcome whose result is (c - b)/a; "2x + 3 = 7"
\* returns 2.
C8_ExplicitCoefficient ==
    (Done("solve_linear_equation") /\ variable = T_x) =>
        LET Is(val) == /\ raised = NoError
                       /\ outcome.operation = "linear_equation"
                       /\ outcome.result = val
            Eq(a, b, c) == a \o T_x \o <<" ", "+", " ">> \o b \o <<" ", "=", " ">> \o c
        IN  /\ \A a \in Coefs \ {0}, b \in Coefs, c \in Coefs :
                   expression = Eq(NumText(a), NumText(b), NumText(c)) => Is(MkRat(c - b, a))
            /\ expression = Eq(<<"2">>, <<"3">>, <<"7">>) => Is(Num(2))

\* "-2x + 1 = 2" has been solved, to -1/2
C8_Witness ==
    /\ Done("solve_linear_equation")
    /\ variable = T_x
    /\ expression = <<"-", "2", "x", " ", "+", " ", "1", " ", "=", " ", "2">>
    /\ outcome.operation = "linear_equation"
    /\ outcome.result = MkRat(-1, 2)

\* C9: solve_linear_equation solves "x + {b} = {c}" to c - b, "-x + {b} = {c}"
\* to b - c, and "{a}*v + {b} = {c}" (a # 0) to (c - b)/a: each constant of
\* the left side is counted once.
C9_ImplicitCoefficient ==
    Done("solve_linear_equation") =>
        LET Is(val) == /\ raised = NoError
                       /\ outcome.operation = "linear_equation"
                       /\ outcome.result = val
            Rest(b, c) == <<" ", "+", " ">> \o NumText(b) \o <<" ", "=", " ">> \o NumText(c)
        IN  \A b \in Coefs, c \in Coefs :
                /\ (variable = T_x /\ expression = T_x \o Rest(b, c)) => Is(Num(c - b))
                /\ (variable = T_x /\ expression = <<"-">> \o T_x \o Rest(b, c))
                       => Is(Num(b - c))
                /\ \A a \in Coefs \ {0} :
                       (expression = NumText(a) \o <<"*">> \o variable \o Rest(b, c))
                           => Is(MkRat(c - b, a))

\* C10: solve_linear_equation combines the terms of both sides: "{a}x = x +
\* {c}" (a # 1) returns c/(a - 1), in particular "2x = x + 3" returns 3, and
\* "{c} = x" returns c.
C10_BothSides ==
    (Done("solve_linear_equation") /\ variable = T_x) =>
        LET Is(val) == /\ raised = NoError
                       /\ outcome.operation = "linear_equation"
                       /\ outcome.result = val
        IN  /\ \A a \in Coefs \ {1}, c \in Coefs :
                   expression = NumText(a) \o T_x \o <<" ", "=", " ">> \o T_x
                                \o <<" ", "+", " ">> \o NumText(c)
                       => Is(MkRat(c, a - 1))
            /\ \A c \in Coefs :
                   expression = NumText(c) \o <<" ", "=", " ">> \o T_x => Is(Num(c))
            /\ expression = <<"2", "x", " ", "=", " ", "x", " ", "+", " ", "3">> => Is(Num(3))

\* C11: an equation whose combined coefficient of the variable is zero ("x =
\* x", "x = x + {c}", "0x + {b} = {c}") ends in a designated outcome,
\* "infinitely many solutions" or "no solution": never in an error outcome
\* and never in an ordinary numeric root.
C11_DegenerateEquations ==
    (Done("solve_linear_equation") /\ variable = T_x) =>
        LET Degenerate ==
                {T_x \o <<" ", "=", " ">> \o T_x}
                \cup {T_x \o <<" ", "=", " ">> \o T_x \o <<" ", "+", " ">> \o NumText(c) :
                        c \in Coefs}
                \cup {<<"0">> \o T_x \o <<" ", "+", " ">> \o NumText(b) \o <<" ", "=", " ">>
                      \o NumText(c) : b \in Coefs, c \in Coefs}
        IN  expression \in Degenerate =>
                /\ raised = NoError
                /\ outcome.operation # "error"
                /\ outcome.result.k # "rat"

\* C13: in every outcome returned by evaluate_expression,
\* solve_linear_equation, calculate_statistics or process_batch, the
\* per-segment outcomes of a batch included, the operation is "error" exactly
\* when the error field is set, and an error outcome holds a sentinel as its
\* result: NaN, or the empty list for a failed batch.
C13_ErrorOutcomeShape ==
    (pc = "done" /\ raised = NoError
     /\ called \in {"evaluate_expression", "solve_linear_equation", "calculate_statistics",
                    "process_batch"}) =>
        LET Shaped(o, sentinel) ==
                /\ (o.operation = "error") <=> (o.error.kind # "none")
                /\ o.operation = "error" => o.result = sentinel
        IN  /\ Shaped(outcome, IF called = "process_batch" THEN ListResult(<<>>) ELSE NaN)
            /\ \A k \in 1..Len(outcome.batch_results) : Shaped(outcome.batch_results[k], NaN)

\* a batch has failed as a whole: its result is the empty list
C13_Witness ==
    /\ Done("process_batch")
    /\ raised = NoError
    /\ outcome.operation = "error"
    /\ outcome.error.kind # "none"
    /\ outcome.result = ListResult(<<>>)

\* C16: the right side of an equation is evaluated as a plain expression is.
\* For "x={rhs}" with a right side that holds no variable, the solve fails
\* when evaluate_expression fails on rhs and otherwise returns the value
\* evaluate_expression gives for rhs; an "e" inside a longer token ("1e3",
\* "tau") is not rewritten.  Values are compared where evaluate_expression
\* gives an exact one.
C16_RightSideAsExpression ==
    (Done("solve_linear_equation") /\ variable = T_x) =>
        \A rhs \in NodeTexts \cup RightSideTexts :
            (~Contains(rhs, T_x) /\ expression = T_x \o <<"=">> \o rhs) =>
                \A ev \in {evaluate_expression(rhs)} :
                    IF ev.raised.kind # "none" \/ ev.outcome.operation = "error"
                    THEN outcome.operation = "error"
                    ELSE /\ outcome.operation = "linear_equation"
                         /\ IsRat(ev.outcome.result) => outcome.result = ev.outcome.result

\* C17: a statistics outcome is returned, by calculate_statistics and by the
\* routes that lead to it, only for a text that is one call name([...]) of
\* mean, median, mode, stdev or variance and nothing else; a text with
\* something after the call, such as "mean([1,2,3]) + 100", fails.
C17_WholeTextIsOneCall ==
    (pc = "done" /\ raised = NoError
     /\ called \in {"calculate_statistics", "evaluate_expression", "process_batch",
                    "calculate"}) =>
        LET OneCall(s) ==
                \E name \in {T_mean, T_median, T_mode, T_stdev, T_variance} :
                    /\ StartsAt(s, name \o <<"(", "[">>, 1)
                    /\ Len(s) >= Len(name) + 4
                    /\ \A c \in 1..Len(s) : StartsAt(s, <<"]", ")">>, c) <=> c = Len(s) - 1
        IN  /\ outcome.operation = "statistics" => OneCall(Strip(expression))
            /\ \A k \in 1..Len(outcome.batch_results) :
                   outcome.batch_results[k].operation = "statistics"
                       => OneCall(outcome.batch_results[k].expression)
            /\ expression = T_mean \o <<"(", "[", "1", ",", "2", ",", "3", "]", ")",
                                        " ", "+", " ", "1", "0", "0">>
                   => outcome.operation = "error"

\* C12: calculate never lets a fault escape: for every expression, variable
\* and response format, valid or not, and whatever exception the validation,
\* the dispatch or the construction of the result raises, the call ends by
\* returning a string.
C12_AlwaysReturnsString ==
    Done("calculate") => rendering.returned

\* an exception escaped the dispatch and calculate returned the marked error
C12_Witness ==
    /\ Done("calculate")
    /\ raised.kind # "none"
    /\ response = "fault"
    /\ rendering.returned

\* C14: for every accepted input and both formats the string calculate
\* returns has at most CHARACTER_LIMIT characters, the truncation step
\* included.
C14_ResponseWithinLimit ==
    (Done("calculate") /\ response # "validation_error") =>
        rendering.len <= CHARACTER_LIMIT

\* C15: in the JSON format the truncation is applied exactly when the
\* serialization of the complete result is longer than CHARACTER_LIMIT; the
\* response then carries truncated = true and a list result is its first
\* floor(n/2) elements in their order; otherwise the result is whole and
\* truncated is not set.
C15_JsonTruncation ==
    (Done("calculate") /\ response = "json") =>
        /\ rendering.truncated <=> rendering.full_len > CHARACTER_LIMIT
        /\ (rendering.truncated /\ outcome.result.k = "list") =>
               /\ rendering.result.k = "list"
               /\ Len(rendering.result.items) = Len(outcome.result.items) \div 2
               /\ \A i \in 1..Len(rendering.result.items) :
                      rendering.result.items[i] = outcome.result.items[i]
        /\ ~rendering.truncated => rendering.result = outcome.result

\* a JSON response whose complete serialization was too long
C15_Witness ==
    /\ Done("calculate")
    /\ response = "json"
    /\ rendering.truncated
    /\ rendering.full_len > CHARACTER_LIMIT
    /\ outcome.result.k = "list"
    /\ Len(outcome.result.items) = ManySegments
    /\ Len(rendering.result.items) = ManySegments \div 2

\* C18: in the Markdown rendering of a batch every numbered line shows a
\* value next to the expression of the segment that produced it, also when
\* segments of the batch failed.
C18_BatchLinesPairOwnExpression ==
    (Done("calculate") /\ response = "markdown"
        /\ outcome.operation = "batch_calculation") =>
        LET good == SelectSeq(outcome.batch_results, LAMBDA r : r.operation # "error")
        IN  /\ Len(rendering.pairs) <= Len(good)
            /\ \A i \in 1..Len(rendering.pairs) :
                   /\ rendering.pairs[i].expression = good[i].expression
                   /\ rendering.pairs[i].value = good[i].result

====
